---- MODULE Spec2Model ----
(***************************************************************************)
(* Model of the contact-extraction and aggregation core of src/app.py:     *)
(* EnhancedWebScraper.is_valid_email, extract_contacts_from_text,          *)
(* safe_request and scrape_website, categorize_emails,                     *)
(* generate_email_patterns, parse_markdown_table, get_whois_info, the      *)
(* search providers and search_web_sources, the AI queries, and in main()  *)
(* the merge of the per-method results and the export records.             *)
(*                                                                         *)
(* Python strings are TLA+ strings; a character is a string of length 1.   *)
(***************************************************************************)
EXTENDS Integers, Sequences, FiniteSets, TLC

VARIABLES
    \* main(): the research run
    pc,               \* position of main() in the run
    research_methods, \* the methods selected in the sidebar
    all_emails,       \* main(): all_emails
    all_phones,       \* main(): all_phones
    method_results,   \* main(): method_results, method -> set of emails
    src,              \* the result each method returns in this run
    applied,          \* merges folded into the aggregate so far, in order
    shown_patterns,   \* main(): patterns, as displayed by the Email Patterns step
    external_calls,   \* the calls to the network made so far, with their timeout
    export_data,      \* main(): export_data, the records to export
    \* one call of is_valid_email from the scraper
    v_pc, v_arg, v_ret, v_emails,
    \* one call of categorize_emails
    c_pc, c_arg, c_ret,
    \* one call of extract_contacts_from_text
    x_pc, x_text, x_emails, x_phones,
    \* one call of generate_email_patterns
    g_pc, g_domain, g_country, g_industry, g_ret,
    \* one call of parse_markdown_table
    t_pc, t_text, t_ret,
    \* one call of scrape_website
    s_pc,               \* position in the page loop
    max_pages,          \* scrape_website: max_pages
    site,               \* what the web serves for each candidate URL
    s_i,                \* index of the page of the current iteration
    response,           \* what safe_request returned in this iteration
    s_all_emails,       \* scrape_website: all_emails
    s_all_phones,       \* scrape_website: all_phones
    pages_scraped,      \* scrape_website: pages_scraped
    successful_scrapes, \* scrape_website: successful_scrapes
    s_trace,            \* the page fetches and delays so far, in order
    s_ret,              \* the dict scrape_website returns
    \* one call of search_web_sources
    w_pc,               \* position in search_web_sources
    w_country,          \* search_web_sources: country
    api_keys,           \* self.api_keys: the keys of Tavily and Bing
    w_served,           \* the queries sent so far, each with the provider's answer
    all_results,        \* search_web_sources: all_results
    w_ret               \* the dict search_web_sources returns

run_vars == <<pc, research_methods, all_emails, all_phones, method_results, src, applied,
              shown_patterns, external_calls, export_data>>
v_vars == <<v_pc, v_arg, v_ret, v_emails>>
c_vars == <<c_pc, c_arg, c_ret>>
x_vars == <<x_pc, x_text, x_emails, x_phones>>
g_vars == <<g_pc, g_domain, g_country, g_industry, g_ret>>
t_vars == <<t_pc, t_text, t_ret>>
s_vars == <<s_pc, max_pages, site, s_i, response, s_all_emails, s_all_phones, pages_scraped,
            successful_scrapes, s_trace, s_ret>>
w_vars == <<w_pc, w_country, api_keys, w_served, all_results, w_ret>>
vars == <<run_vars, v_vars, c_vars, x_vars, g_vars, t_vars, s_vars, w_vars>>

---------------------------------------------------------------------------
(* Python str operations                                                   *)

Char(s, i) == SubSeq(s, i, i)

UpperAlpha == "ABCDEFGHIJKLMNOPQRSTUVWXYZ"
LowerAlpha == "abcdefghijklmnopqrstuvwxyz"
DigitChars == "0123456789"

CharsOf(s) == {Char(s, i) : i \in 1..Len(s)}

Letters == CharsOf(UpperAlpha) \cup CharsOf(LowerAlpha)

\* the lowercase and the uppercase form of every ASCII letter
LowerOf == [c \in Letters |-> Char(LowerAlpha, CHOOSE i \in 1..26 : c \in {Char(UpperAlpha, i), Char(LowerAlpha, i)})]
UpperOf == [c \in Letters |-> Char(UpperAlpha, CHOOSE i \in 1..26 : c \in {Char(UpperAlpha, i), Char(LowerAlpha, i)})]

\* str.lower() of one ASCII character
lower_char(c) == IF c \in Letters THEN LowerOf[c] ELSE c

\* str.upper() of one ASCII character
upper_char(c) == IF c \in Letters THEN UpperOf[c] ELSE c

RECURSIVE lower(_)
\* str.lower()
lower(s) == IF s = "" THEN "" ELSE lower_char(Head(s)) \o lower(Tail(s))

RECURSIVE upper(_)
\* str.upper()
upper(s) == IF s = "" THEN "" ELSE upper_char(Head(s)) \o upper(Tail(s))

\* sub in s
Contains(s, sub) ==
    \E i \in 1..(Len(s) - Len(sub) + 1) : SubSeq(s, i, i + Len(sub) - 1) = sub

RECURSIVE split_from(_, _, _, _)
split_from(s, sep, i, start) ==
    IF i > Len(s) THEN <<SubSeq(s, start, Len(s))>>
    ELSE IF Char(s, i) = sep
         THEN <<SubSeq(s, start, i - 1)>> \o split_from(s, sep, i + 1, i + 1)
         ELSE split_from(s, sep, i + 1, start)

\* str.split(sep) for a one-character separator
split(s, sep) == split_from(s, sep, 1, 1)

RECURSIVE replace_char(_, _, _)
\* str.replace(old, new) for a one-character old
replace_char(s, old, new) ==
    IF s = "" THEN ""
    ELSE (IF Head(s) = old THEN new ELSE Head(s)) \o replace_char(Tail(s), old, new)

RECURSIVE keep_chars(_, _)
\* re.sub(r'[^...]', '', s): keep only the characters of the set
keep_chars(s, set) ==
    IF s = "" THEN ""
    ELSE (IF Head(s) \in set THEN Head(s) ELSE "") \o keep_chars(Tail(s), set)

\* d[k] = v on a dict
Put(d, k, v) == [x \in DOMAIN d \cup {k} |-> IF x = k THEN v ELSE d[x]]

\* the values of a list or dict
Range(f) == {f[k] : k \in DOMAIN f}

\* no element occurs twice in the list
Distinct(l) == \A i, j \in 1..Len(l) : i # j => l[i] # l[j]

---------------------------------------------------------------------------
(* Python values handed to is_valid_email: a mailto target or a regex hit  *)
(* is a str; a JSON-LD "email" field is whatever json.loads produced.      *)

PyStr(s) == [type |-> "str", s |-> s]
PyInt == [type |-> "int"]
PyNone == [type |-> "NoneType"]
PyList(items) == [type |-> "list", items |-> items]
PyDict(keys) == [type |-> "dict", keys |-> keys]

Return(v) == [exc |-> FALSE, value |-> v]
Raise == [exc |-> TRUE, value |-> FALSE]

excluded_domains ==
    {"example.com", "test.com", "domain.com", "yoursite.com",
     "google.com", "facebook.com", "twitter.com", "linkedin.com",
     "instagram.com", "youtube.com", "github.com", "sentry.io",
     "gravatar.com", "w3.org", "schema.org", "mozilla.org"}

\* every pattern is a literal: re.search(pattern, s) is substring containment
\* (r'@example\.com' is the literal @example.com)
fake_patterns ==
    <<"noreply", "no-reply", "donotreply", "test@",
      "admin@example", "user@example", "@example.com",
      "placeholder", "dummy", "fake">>

\* '@' in email, by the type of email
py_contains_at(email) ==
    CASE email.type = "str" -> Return(Contains(email.s, "@"))
      [] email.type = "list" -> Return(\E i \in 1..Len(email.items) : email.items[i] = "@")
      [] email.type = "dict" -> Return("@" \in email.keys)
      [] OTHER -> Raise    \* TypeError: argument of type ... is not iterable

\* the test of line 242 on a str, the domain compared as written
is_valid_email_str_nolower(s) ==
    IF ~Contains(s, "@") \/ ~Contains(split(s, "@")[2], ".") THEN FALSE
    ELSE IF split(s, "@")[2] \in excluded_domains THEN FALSE
    ELSE IF \E k \in 1..Len(fake_patterns) : Contains(lower(s), fake_patterns[k]) THEN FALSE
    ELSE TRUE

\* lines 242-260 on a str
is_valid_email_str(s) ==
    IF ~Contains(s, "@") \/ ~Contains(split(s, "@")[2], ".") THEN FALSE
    ELSE IF lower(split(s, "@")[2]) \in excluded_domains THEN FALSE
    ELSE IF \E k \in 1..Len(fake_patterns) : Contains(lower(s), fake_patterns[k]) THEN FALSE
    ELSE TRUE

\* the body of the try block, lines 242-260
is_valid_email_try(email) ==
    LET at == py_contains_at(email) IN
    IF at.exc THEN Raise
    ELSE IF ~at.value THEN Return(FALSE)
    ELSE IF email.type # "str" THEN Raise   \* AttributeError: no attribute 'split'
    ELSE Return(is_valid_email_str(email.s))

\* is_valid_email without its except clause
is_valid_email_noexcept(email) == is_valid_email_try(email)

\* is_valid_email: try ... except: return False
is_valid_email(email) ==
    LET r == is_valid_email_try(email) IN
    IF r.exc THEN Return(FALSE) ELSE r

---------------------------------------------------------------------------
(* Python re: a backtracking matcher. A pattern is a tree; M gives, for a  *)
(* pattern and a start position, the matches in the order the backtracking *)
(* engine of re tries them, so the first one is the match re reports.      *)
(* Every pattern of the program is compiled or used with re.IGNORECASE.    *)

\* under IGNORECASE a character stands for both of its cases
BothCases(set) == set \cup {lower_char(c) : c \in set} \cup {upper_char(c) : c \in set}

\* a literal character
Lit(c) == [op |-> "cls", set |-> BothCases({c})]
\* a character class [...]
Cls(set) == [op |-> "cls", set |-> BothCases(set)]
Cat(rs) == [op |-> "cat", rs |-> rs]
Alt(rs) == [op |-> "alt", rs |-> rs]
Grp(n, r) == [op |-> "grp", n |-> n, r |-> r]
WordB == [op |-> "wordb"]
\* r{min,max}, greedy
Rep(r, min, max) == [op |-> "rep", r |-> r, min |-> min, max |-> max, unbounded |-> FALSE]
\* r{min,}, greedy
RepFrom(r, min) == [op |-> "rep", r |-> r, min |-> min, max |-> min, unbounded |-> TRUE]
Opt(r) == Rep(r, 0, 1)
Star(r) == RepFrom(r, 0)
Plus(r) == RepFrom(r, 1)

RECURSIVE Word(_)
\* the characters of a literal word, one after the other
Word(w) == IF w = "" THEN <<>> ELSE <<Lit(Head(w))>> \o Word(Tail(w))

Digits == CharsOf(DigitChars)
\* \w
WordChars == Letters \cup Digits \cup {"_"}
\* \s
Whitespace == {" ", "\t", "\n", "\r", "\f"}

\* \b before position i of s
AtWordBoundary(s, i) ==
    LET before == i > 1 /\ Char(s, i - 1) \in WordChars
        after == i <= Len(s) /\ Char(s, i) \in WordChars
    IN  before # after

NoGroups == [n \in {} |-> <<0, 0>>]

RECURSIVE M(_, _, _, _)
RECURSIVE MCat(_, _, _, _, _)
RECURSIVE MCatRest(_, _, _, _, _)
RECURSIVE MAlt(_, _, _, _, _)
RECURSIVE MRep(_, _, _, _, _)
RECURSIVE MRepRest(_, _, _, _, _)
RECURSIVE MGrp(_, _, _, _)

\* the matches of r in s from position i, groups g matched so far:
\* each match is the position after it and the groups
M(r, s, i, g) ==
    CASE r.op = "cls" ->
            IF i <= Len(s) /\ Char(s, i) \in r.set
            THEN <<[e |-> i + 1, g |-> g]>> ELSE <<>>
      [] r.op = "wordb" ->
            IF AtWordBoundary(s, i) THEN <<[e |-> i, g |-> g]>> ELSE <<>>
      [] r.op = "cat" -> MCat(r.rs, 1, s, i, g)
      [] r.op = "alt" -> MAlt(r.rs, 1, s, i, g)
      [] r.op = "rep" -> MRep(r, 0, s, i, g)
      [] r.op = "grp" -> MGrp(r.n, i, M(r.r, s, i, g), 1)

\* rs[k], rs[k+1], ... one after the other
MCat(rs, k, s, i, g) ==
    IF k > Len(rs) THEN <<[e |-> i, g |-> g]>>
    ELSE MCatRest(rs, k, s, M(rs[k], s, i, g), 1)

MCatRest(rs, k, s, res, j) ==
    IF j > Len(res) THEN <<>>
    ELSE MCat(rs, k + 1, s, res[j].e, res[j].g) \o MCatRest(rs, k, s, res, j + 1)

\* rs[k] | rs[k+1] | ...: the alternatives in order
MAlt(rs, k, s, i, g) ==
    IF k > Len(rs) THEN <<>>
    ELSE M(rs[k], s, i, g) \o MAlt(rs, k + 1, s, i, g)

\* a greedy repetition after n iterations: one more first, then stop
MRep(r, n, s, i, g) ==
    (IF r.unbounded \/ n < r.max
     THEN MRepRest(r, n + 1, s, M(r.r, s, i, g), 1) ELSE <<>>)
    \o (IF n >= r.min THEN <<[e |-> i, g |-> g]>> ELSE <<>>)

MRepRest(r, n, s, res, j) ==
    IF j > Len(res) THEN <<>>
    ELSE MRep(r, n, s, res[j].e, res[j].g) \o MRepRest(r, n, s, res, j + 1)

\* a capturing group: its span is recorded
MGrp(n, i, res, j) ==
    IF j > Len(res) THEN <<>>
    ELSE <<[e |-> res[j].e, g |-> Put(res[j].g, n, <<i, res[j].e - 1>>)]>>
         \o MGrp(n, i, res, j + 1)

RECURSIVE finditer(_, _, _)
\* the non-overlapping matches of r in s, scanning from position i
finditer(r, s, i) ==
    IF i > Len(s) + 1 THEN <<>>
    ELSE LET res == M(r, s, i, NoGroups) IN
         IF res = <<>> THEN finditer(r, s, i + 1)
         ELSE <<[start |-> i, e |-> res[1].e, g |-> res[1].g]>>
              \o finditer(r, s, IF res[1].e > i THEN res[1].e ELSE i + 1)

\* re.findall for a pattern without capturing groups: the matched texts
findall(r, s) ==
    LET ms == finditer(r, s, 1) IN
    [k \in 1..Len(ms) |-> SubSeq(s, ms[k].start, ms[k].e - 1)]

\* re.findall for a pattern with three capturing groups: the tuples
findall_groups(r, s) ==
    LET ms == finditer(r, s, 1) IN
    [k \in 1..Len(ms) |-> [n \in 1..3 |-> SubSeq(s, ms[k].g[n][1], ms[k].g[n][2])]]

---------------------------------------------------------------------------
(* EnhancedWebScraper.extract_contacts_from_text, lines 264-296            *)

LocalClass == Cls(Letters \cup Digits \cup {".", "_", "%", "+", "-"})
DomainClass == Cls(Letters \cup Digits \cup {".", "-"})
Digit == Cls(Digits)
\* [-.\s]
Separator == Cls({"-", "."} \cup Whitespace)
Ws == Star(Cls(Whitespace))

\* lines 197-200; [A-Z|a-z] holds the bar as well
email_pattern ==
    Cat(<<WordB, Plus(LocalClass), Lit("@"), Plus(DomainClass), Lit("."),
          RepFrom(Cls(Letters \cup {"|"}), 2), WordB>>)

\* (?:\(?[0-9]{min,max}\)?[-.\s]?)?
AreaCode(min, max) ==
    Opt(Cat(<<Opt(Lit("(")), Rep(Digit, min, max), Opt(Lit(")")), Opt(Separator)>>))

\* lines 202-205
phone_pattern ==
    Alt(<<Cat(<<Opt(Cat(<<Opt(Lit("+")), Lit("1"), Opt(Separator)>>)),
                AreaCode(3, 3), Rep(Digit, 3, 3), Opt(Separator), Rep(Digit, 4, 4)>>),
          Cat(<<Opt(Cat(<<Lit("+"), Lit("4"), Lit("9"), Opt(Separator)>>)),
                AreaCode(3, 4), Rep(Digit, 6, 8)>>),
          Cat(<<Opt(Cat(<<Lit("+"), Lit("4"), Lit("4"), Opt(Separator)>>)),
                AreaCode(3, 4), Rep(Digit, 6, 8)>>)>>)

\* line 284: local [at|@] domain [dot|.] tld, the brackets optional
obfuscated_bracket ==
    Cat(<<Grp(1, Plus(LocalClass)),
          Ws, Opt(Lit("[")), Ws, Alt(<<Cat(Word("at")), Lit("@")>>), Ws, Opt(Lit("]")), Ws,
          Grp(2, Plus(DomainClass)),
          Ws, Opt(Lit("[")), Ws, Alt(<<Cat(Word("dot")), Lit(".")>>), Ws, Opt(Lit("]")), Ws,
          Grp(3, RepFrom(Cls(Letters), 2))>>)

\* line 285: local (at) domain (dot) tld
obfuscated_paren ==
    Cat(<<Grp(1, Plus(LocalClass)), Ws, Cat(Word("(at)")), Ws,
          Grp(2, Plus(DomainClass)), Ws, Cat(Word("(dot)")), Ws,
          Grp(3, RepFrom(Cls(Letters), 2))>>)

\* line 286: local AT domain DOT tld
obfuscated_upper ==
    Cat(<<Grp(1, Plus(LocalClass)), Ws, Cat(Word("AT")), Ws,
          Grp(2, Plus(DomainClass)), Ws, Cat(Word("DOT")), Ws,
          Grp(3, RepFrom(Cls(Letters), 2))>>)

\* the list without the pattern of the parenthesised form
obfuscated_patterns_no_paren == <<obfuscated_bracket, obfuscated_upper>>

\* lines 283-287
obfuscated_patterns == <<obfuscated_bracket, obfuscated_paren, obfuscated_upper>>

\* the valid hits of email_pattern, in the letter case of the text
extracted_emails_as_found(text) ==
    LET found_emails == findall(email_pattern, text) IN
    {found_emails[k] :
        k \in {j \in 1..Len(found_emails) : is_valid_email(PyStr(found_emails[j])).value}}

\* lines 270-273
extracted_emails(text) ==
    LET found_emails == findall(email_pattern, text) IN
    {lower(found_emails[k]) :
        k \in {j \in 1..Len(found_emails) : is_valid_email(PyStr(found_emails[j])).value}}

\* lines 276-280
extracted_phones(text) ==
    LET found_phones == findall(phone_pattern, text) IN
    {found_phones[k] :
        k \in {j \in 1..Len(found_phones) :
                  Len(keep_chars(found_phones[j], Digits \cup {"+"})) >= 10}}

\* lines 289-294
deobfuscated_emails(text) ==
    LET Rebuilt(t) == replace_char(t[1] \o "@" \o t[2] \o "." \o t[3], " ", "")
        OfPattern(pattern) ==
            LET obfuscated_emails == findall_groups(pattern, text) IN
            {lower(Rebuilt(obfuscated_emails[k])) :
                k \in {j \in 1..Len(obfuscated_emails) :
                          is_valid_email(PyStr(Rebuilt(obfuscated_emails[j]))).value}}
    IN  UNION {OfPattern(obfuscated_patterns[n]) : n \in 1..Len(obfuscated_patterns)}

\* extract_contacts_from_text(text): (emails, phones)
extract_contacts_from_text(text) ==
    [emails |-> extracted_emails(text) \cup deobfuscated_emails(text),
     phones |-> extracted_phones(text)]

---------------------------------------------------------------------------
(* categorize_emails, lines 698-743                                        *)

\* the keys of the categories dict, lines 700-710
category_names ==
    {"executive", "sales", "support", "hr", "general",
     "technical", "marketing", "finance", "personal"}

\* the rule groups in alphabetical order of their names
patterns_alphabetical ==
    <<[category |-> "executive", pattern_list |-> <<"ceo", "president", "director", "manager", "chief", "geschaeftsfueh", "vorstand">>],
      [category |-> "finance", pattern_list |-> <<"finance", "accounting", "billing", "invoice", "buchhal">>],
      [category |-> "general", pattern_list |-> <<"info", "contact", "office", "hello", "kontakt", "mail">>],
      [category |-> "hr", pattern_list |-> <<"hr", "personal", "bewerbung", "career", "jobs", "recruiting">>],
      [category |-> "marketing", pattern_list |-> <<"marketing", "promotion", "pr", "media", "communication">>],
      [category |-> "sales", pattern_list |-> <<"sales", "business", "commercial", "vertrieb", "verkauf">>],
      [category |-> "support", pattern_list |-> <<"support", "help", "service", "kunde", "customer">>],
      [category |-> "technical", pattern_list |-> <<"tech", "it", "dev", "admin", "webmaster", "engineering">>]>>

\* the patterns dict, lines 712-721, in insertion order (the order a Python
\* dict iterates in)
patterns ==
    <<[category |-> "executive", pattern_list |-> <<"ceo", "president", "director", "manager", "chief", "geschaeftsfueh", "vorstand">>],
      [category |-> "sales", pattern_list |-> <<"sales", "business", "commercial", "vertrieb", "verkauf">>],
      [category |-> "support", pattern_list |-> <<"support", "help", "service", "kunde", "customer">>],
      [category |-> "hr", pattern_list |-> <<"hr", "personal", "bewerbung", "career", "jobs", "recruiting">>],
      [category |-> "technical", pattern_list |-> <<"tech", "it", "dev", "admin", "webmaster", "engineering">>],
      [category |-> "marketing", pattern_list |-> <<"marketing", "promotion", "pr", "media", "communication">>],
      [category |-> "finance", pattern_list |-> <<"finance", "accounting", "billing", "invoice", "buchhal">>],
      [category |-> "general", pattern_list |-> <<"info", "contact", "office", "hello", "kontakt", "mail">>]>>

\* line 724
local_part(email) == lower(split(email, "@")[1])

\* lines 728-732: some pattern of group k is found in the local part
\* (every pattern is a literal, so re.search is substring containment)
group_matches(k, local) ==
    \E j \in 1..Len(patterns[k].pattern_list) :
        Contains(local, patterns[k].pattern_list[j])

\* the loop body without its break: every matching group takes the email
appended_to_nobreak(email) ==
    LET local == local_part(email)
        hits == {k \in 1..Len(patterns) : group_matches(k, local)}
    IN  IF hits # {}
        THEN {patterns[k].category : k \in hits}
        ELSE IF Contains(local, ".") /\ Len(split(local, ".")) = 2
             THEN {"personal"}
             ELSE {"general"}

\* lines 724-741: the categories whose list the email is appended to
appended_to(email) ==
    LET local == local_part(email)
        hits == {k \in 1..Len(patterns) : group_matches(k, local)}
    IN  IF hits # {}
        THEN {patterns[CHOOSE k \in hits : \A h \in hits : k <= h].category}
        ELSE IF Contains(local, ".") /\ Len(split(local, ".")) = 2
             THEN {"personal"}
             ELSE {"general"}

\* categorize_emails(emails): emails is a list, the result a dict holding
\* the non-empty lists only (line 743)
categorize_emails(emails) ==
    LET InCat(c) == LET Test(e) == c \in appended_to(e) IN SelectSeq(emails, Test)
        categories == [c \in category_names |-> InCat(c)]
    IN  [c \in {k \in category_names : categories[k] # <<>>} |-> categories[c]]

---------------------------------------------------------------------------
(* generate_email_patterns, lines 745-811                                  *)

\* [f"{local}@{domain}" for local in locals]
at_domain(locals, domain) == [k \in 1..Len(locals) |-> locals[k] \o "@" \o domain]

\* lines 748-770
standard_groups ==
    [name \in {"Standard Business", "Executive", "Departments"} |->
        CASE name = "Standard Business" ->
                <<"info", "contact", "hello", "office", "mail", "admin">>
          [] name = "Executive" ->
                <<"ceo", "president", "director", "manager", "leadership">>
          [] name = "Departments" ->
                <<"sales", "marketing", "hr", "support", "finance", "operations">>]

\* lines 774-782
german_countries == {"germany", "deutschland", "de"}
german_business ==
    <<"kontakt", "personal", "bewerbung", "geschaeftsleitung", "verwaltung", "vertrieb">>

\* lines 787-809: the branches of the if/elif chain, in its order
industry_branches ==
    <<[name |-> "Education",
       words |-> <<"education", "school", "university", "bildung">>,
       locals |-> <<"admissions", "registrar", "faculty", "academic", "students">>],
      [name |-> "Technology",
       words |-> <<"tech", "technology", "software">>,
       locals |-> <<"dev", "tech", "engineering", "product", "api">>],
      [name |-> "Healthcare",
       words |-> <<"healthcare", "medical", "hospital">>,
       locals |-> <<"appointments", "patients", "medical", "clinic">>]>>

\* any(word in industry_lower for word in words)
any_word_in(words, industry_lower) ==
    \E k \in 1..Len(words) : Contains(industry_lower, words[k])

\* every branch whose test holds, as a chain of if statements would take
branches_taken_every(industry_lower) ==
    {k \in 1..Len(industry_branches) :
        any_word_in(industry_branches[k].words, industry_lower)}

\* lines 787, 795, 803: the branch the if/elif chain takes, if any
branches_taken(industry_lower) ==
    {k \in 1..Len(industry_branches) :
        /\ any_word_in(industry_branches[k].words, industry_lower)
        /\ \A j \in 1..(k - 1) : ~any_word_in(industry_branches[j].words, industry_lower)}

\* generate_email_patterns(domain, country, industry): group name -> list
generate_email_patterns(domain, country, industry) ==
    LET taken == IF industry # "" THEN branches_taken(lower(industry)) ELSE {}
        german == lower(country) \in german_countries
        names == DOMAIN standard_groups
                 \cup (IF german THEN {"German Business"} ELSE {})
                 \cup {industry_branches[k].name : k \in taken}
    IN  [name \in names |->
            IF name \in DOMAIN standard_groups THEN at_domain(standard_groups[name], domain)
            ELSE IF name = "German Business" THEN at_domain(german_business, domain)
            ELSE at_domain((CHOOSE b \in Range(industry_branches) : b.name = name).locals,
                           domain)]

---------------------------------------------------------------------------
(* safe_request and scrape_website, lines 298-436                          *)

\* s.startswith(prefix)
startswith(s, prefix) == Len(s) >= Len(prefix) /\ SubSeq(s, 1, Len(prefix)) = prefix

RECURSIVE lstrip(_)
lstrip(s) == IF s # "" /\ Head(s) \in Whitespace THEN lstrip(Tail(s)) ELSE s

RECURSIVE rstrip(_)
rstrip(s) ==
    IF s # "" /\ Char(s, Len(s)) \in Whitespace THEN rstrip(SubSeq(s, 1, Len(s) - 1)) ELSE s

\* str.strip()
strip(s) == rstrip(lstrip(s))

\* lines 335-354
contact_patterns ==
    <<"/contact", "/contact-us", "/contact.html", "/contact.php",
      "/about", "/about-us", "/about.html", "/team", "/staff", "/people",
      "/leadership", "/management", "/executives", "/directory",
      "/kontakt", "/kontakt.html", "/impressum", "/impressum.html",
      "/ueber-uns", "/team", "/mitarbeiter", "/ansprechpartner",
      "/contact", "/nous-contacter", "/equipe", "/a-propos",
      "/contacto", "/equipo", "/sobre-nosotros",
      "/en/contact", "/de/kontakt", "/fr/contact", "/es/contacto",
      "/company", "/corporate", "/office", "/locations">>

\* lines 329-358 for a base_url that is scheme://domain, as main() passes
\* it ('https://' + website): base_path is base_url
urls_to_check(base_url) ==
    LET n == Len(contact_patterns) IN
    <<base_url>> \o
    [k \in 1..(2 * n) |->
        IF k % 2 = 1 THEN base_url \o contact_patterns[(k + 1) \div 2]
        ELSE base_url \o upper(contact_patterns[k \div 2])]

\* lines 298-320: (response, error) for what the web serves. The request of
\* line 310 is the request of line 304 again, and fails as the first did;
\* raise_for_status() raises for a status code from 400 on.
safe_request(served) ==
    CASE served.kind = "timeout" -> [response |-> PyNone, error |-> PyStr("Request timeout")]
      [] served.kind = "ssl" -> [response |-> PyNone, error |-> PyStr("SSL error")]
      [] served.kind = "network" -> [response |-> PyNone, error |-> PyStr("Request error")]
      [] served.kind = "http" ->
            IF served.status_code >= 400
            THEN [response |-> PyNone, error |-> PyStr("Request error")]
            ELSE [response |-> [type |-> "Response", status_code |-> served.status_code,
                                content |-> served.content],
                  error |-> PyNone]

\* line 366: response and response.status_code == 200 (a Response is true
\* when its status code is below 400)
response_is_200(r) == r # PyNone /\ r.status_code < 400 /\ r.status_code = 200

\* line 372: the tags whose elements are removed from the document
unwanted_elements == {"script", "style", "nav", "footer", "header", "aside"}

\* lines 372-373: the elements left in the document, in document order. An
\* element is removed with the unwanted element it is, or lies within.
decomposed(elements) ==
    LET keeps(e) == e.tag \notin unwanted_elements /\ e.within \notin unwanted_elements
    IN  SelectSeq(elements, keeps)

RECURSIVE get_text(_)
\* line 376: soup.get_text()
get_text(soup) == IF soup = <<>> THEN "" ELSE Head(soup).text \o get_text(Tail(soup))

\* lines 380-384
mailto_emails(soup) ==
    LET email(link) == split(SubSeq(link.href, 8, Len(link.href)), "?")[1] IN
    {lower(email(soup[k])) :
        k \in {j \in 1..Len(soup) :
                  /\ soup[j].tag = "a" /\ startswith(soup[j].href, "mailto:")
                  /\ is_valid_email(PyStr(email(soup[j]))).value}}

\* lines 387-391
tel_phones(soup) ==
    LET phone(link) == strip(SubSeq(link.href, 5, Len(link.href))) IN
    {phone(soup[k]) :
        k \in {j \in 1..Len(soup) :
                  /\ soup[j].tag = "a" /\ startswith(soup[j].href, "tel:")
                  /\ Len(keep_chars(phone(soup[j]), Digits)) >= 10}}

\* line 394
json_scripts(soup) ==
    {j \in 1..Len(soup) : soup[j].tag = "script" /\ soup[j].type = "application/ld+json"}

\* lines 397-402: data is what json.loads returned, or a JSONDecodeError
json_ld_emails(soup) ==
    {lower(soup[k].data.fields["email"].s) :
        k \in {j \in json_scripts(soup) :
                  /\ soup[j].data.type = "dict"
                  /\ "email" \in DOMAIN soup[j].data.fields
                  /\ is_valid_email(soup[j].data.fields["email"]).value}}

\* lines 403-406: a telephone that is not hashable raises, and the script
\* is left
json_ld_phones(soup) ==
    {soup[k].data.fields["telephone"].s :
        k \in {j \in json_scripts(soup) :
                  /\ soup[j].data.type = "dict"
                  /\ "telephone" \in DOMAIN soup[j].data.fields
                  /\ soup[j].data.fields["telephone"].type = "str"}}

\* lines 369-406: emails and phones of one response; raises where
\* BeautifulSoup or the traversal of the document raises
page_contacts(content) ==
    IF content.unparsable THEN Raise
    ELSE LET soup == decomposed(content.elements)
             found == extract_contacts_from_text(get_text(soup))
         IN  Return([emails |-> found.emails \cup mailto_emails(soup) \cup json_ld_emails(soup),
                     phones |-> found.phones \cup tel_phones(soup) \cup json_ld_phones(soup)])

---------------------------------------------------------------------------
(* parse_markdown_table, lines 813-852                                     *)

\* [cell.strip() for cell in line.split("|")]
stripped_cells(line) ==
    LET cells == split(line, "|") IN [k \in 1..Len(cells) |-> strip(cells[k])]

\* line 817
table_lines(text) ==
    LET in_table(line) ==
            Contains(line, "|") /\ ~Contains(line, "---") /\ strip(line) # ""
    IN  SelectSeq(split(text, "\n"), in_table)

\* line 823
headers_of(line) ==
    LET non_empty(cell) == cell # "" IN SelectSeq(stripped_cells(line), non_empty)

RECURSIVE pop_leading(_)
\* lines 832-833
pop_leading(cells) ==
    IF cells # <<>> /\ Head(cells) = "" THEN pop_leading(Tail(cells)) ELSE cells

RECURSIVE pop_trailing(_)
\* lines 834-835
pop_trailing(cells) ==
    IF cells # <<>> /\ cells[Len(cells)] = ""
    THEN pop_trailing(SubSeq(cells, 1, Len(cells) - 1))
    ELSE cells

\* lines 838-841: the cells padded with "" or cut to the width of the header
fit_to(cells, width) ==
    [k \in 1..width |-> IF k <= Len(cells) THEN cells[k] ELSE ""]

\* lines 830-841
cells_of(line, headers) ==
    fit_to(pop_trailing(pop_leading(stripped_cells(line))), Len(headers))

\* lines 828-845
rows_of(lines, headers) ==
    LET has_content(line) == \E k \in 1..Len(headers) : strip(cells_of(line, headers)[k]) # ""
        kept == SelectSeq(lines, has_content)
    IN  [k \in 1..Len(kept) |-> cells_of(kept[k], headers)]

DataFrame(rows, columns) == [type |-> "DataFrame", columns |-> columns, rows |-> rows]

\* lines 847-850
table_of(rows, headers) == IF rows = <<>> THEN PyNone ELSE DataFrame(rows, headers)

\* the body of the try block, lines 816-850: nothing in it raises on a str
parse_markdown_table_try(text) ==
    LET lines == table_lines(text) IN
    IF Len(lines) < 2 THEN Return(PyNone)
    ELSE LET headers == headers_of(lines[1]) IN
         IF headers = <<>> THEN Return(PyNone)
         ELSE Return(table_of(rows_of(Tail(lines), headers), headers))

\* parse_markdown_table: try ... except Exception: return None
parse_markdown_table(text) ==
    LET r == parse_markdown_table_try(text) IN
    IF r.exc THEN Return(PyNone) ELSE r

---------------------------------------------------------------------------
(* get_whois_info, lines 666-696                                           *)

\* line 677
generic_registrar == {"whoisguard", "proxy", "privacy", "registrar"}

\* lines 668-696: w is what whois.whois(domain) gave, its emails or the
\* exception it raised; the result is the dict returned, error for its key
\* 'error' and emails for its key 'emails', empty when the key is absent
get_whois_info(w) ==
    IF w.raises THEN [error |-> TRUE, emails |-> {}]
    ELSE [error |-> FALSE,
          emails |-> {email \in w.emails :
                         \A generic \in generic_registrar : ~Contains(lower(email), generic)}]

---------------------------------------------------------------------------
(* The AI query, lines 461-607, and the AI Research step of main(), lines  *)
(* 1116-1173                                                               *)

\* the character U+274C that opens the messages of lines 525, 554 and 581,
\* written as an ASCII character here
failure_mark == "#"

\* the answer of the API to requests.post: an exception raised with message
\* text, or a response with status_code and text, whose content on a 200 is
\* text
ApiRaises(text) == [raises |-> TRUE, status_code |-> 0, text |-> text]
ApiResponse(status_code, text) == [raises |-> FALSE, status_code |-> status_code, text |-> text]

\* lines 522-549
query_openrouter(api_key, reply) ==
    IF api_key = "" THEN failure_mark \o " OpenRouter API key required"
    ELSE IF reply.raises THEN "OpenRouter error: " \o reply.text
    ELSE IF reply.status_code = 200 THEN reply.text
    ELSE "OpenRouter error: " \o ToString(reply.status_code) \o " - " \o reply.text

\* lines 551-578
query_openai(api_key, reply) ==
    IF api_key = "" THEN failure_mark \o " OpenAI API key required"
    ELSE IF reply.raises THEN "OpenAI error: " \o reply.text
    ELSE IF reply.status_code = 200 THEN reply.text
    ELSE "OpenAI error: " \o ToString(reply.status_code)

\* lines 580-607
query_anthropic(api_key, reply) ==
    IF api_key = "" THEN failure_mark \o " Anthropic API key required"
    ELSE IF reply.raises THEN "Anthropic error: " \o reply.text
    ELSE IF reply.status_code = 200 THEN reply.text
    ELSE "Anthropic error: " \o ToString(reply.status_code)

\* lines 510-520: the queries catch what they raise, so the except branch of
\* line 519 is never taken
search_with_ai(provider, api_key, reply) ==
    CASE provider = "perplexity" -> query_openrouter(api_key, reply)
      [] provider = "openai" -> query_openai(api_key, reply)
      [] provider = "anthropic" -> query_anthropic(api_key, reply)
      [] OTHER -> "Provider not implemented"

\* lines 1147-1156: the valid emails of the columns whose name holds 'email'
ai_emails_of(df) ==
    LET email_columns == {k \in 1..Len(df.columns) : Contains(lower(df.columns[k]), "email")}
        cells == {df.rows[n][k] : n \in 1..Len(df.rows), k \in email_columns}
        clean_email(email) == lower(strip(email))
    IN  {clean_email(email) :
            email \in {cell \in cells :
                          /\ Contains(cell, "@") /\ ~Contains(cell, "(estimated)")
                          /\ is_valid_email(PyStr(clean_email(cell))).value}}

\* lines 1121-1169 for one query: what the step does with ai_result. report
\* is whether ai_result was displayed under "AI Research Report", parsed
\* whether it was handed to parse_markdown_table; kind is "no_key" (line
\* 1122, no query made), "failed" (line 1169), "no_table" or "table"; emails
\* is ai_emails
ai_research_step(query) ==
    IF query.api_key = ""
    THEN [kind |-> "no_key", emails |-> {}, query |-> query, ai_result |-> "",
          report |-> FALSE, parsed |-> FALSE]
    ELSE LET ai_result == search_with_ai(query.provider, query.api_key, query.reply) IN
         IF ai_result # "" /\ ~startswith(ai_result, failure_mark)
         THEN LET df == parse_markdown_table(ai_result).value IN
              [kind |-> IF df = PyNone THEN "no_table" ELSE "table",
               emails |-> IF df = PyNone THEN {} ELSE ai_emails_of(df),
               query |-> query, ai_result |-> ai_result, report |-> TRUE, parsed |-> TRUE]
         ELSE [kind |-> "failed", emails |-> {}, query |-> query, ai_result |-> ai_result,
               report |-> FALSE, parsed |-> FALSE]

---------------------------------------------------------------------------
(* RealTimeWebSearcher, lines 85-191, and search_web_sources, lines        *)
(* 609-664                                                                 *)

\* urlparse(website).netloc of a website with a scheme
netloc(website) == split(website, "/")[3]

\* lines 614-624
search_queries(company, website, country) ==
    <<"\"" \o company \o "\" contact email phone " \o country,
      "\"" \o company \o "\" executives management team",
      "\"" \o company \o "\" employee directory staff",
      "site:" \o netloc(website) \o " contact email",
      "\"" \o company \o "\" press release contact spokesperson",
      "\"" \o company \o "\" business directory listing">>
    \o (IF lower(country) \in {"germany", "deutschland"}
        THEN <<"\"" \o company \o "\" impressum kontakt">>
        ELSE <<>>)

\* queries[:n]
first_n(queries, n) == SubSeq(queries, 1, IF Len(queries) < n THEN Len(queries) ELSE n)

\* the answer of a provider to a request: an exception, or a response with
\* status_code and, on a 200, the results of its JSON
SearchRaises == [raises |-> TRUE, status_code |-> 0, results |-> <<>>]
SearchResponse(status_code, results) ==
    [raises |-> FALSE, status_code |-> status_code, results |-> results]

\* search_tavily without its try/except, lines 85-88, 90-110
search_tavily_uncaught(api_key, answer) ==
    IF api_key = "" THEN Return(<<>>)
    ELSE IF answer.raises THEN Raise
    ELSE IF answer.status_code = 200 THEN Return(answer.results)
    ELSE Return(<<>>)

\* lines 85-114
search_tavily(api_key, answer) ==
    IF api_key = "" THEN Return(<<>>)
    ELSE IF answer.raises THEN Return(<<>>)
    ELSE IF answer.status_code = 200 THEN Return(answer.results)
    ELSE Return(<<>>)

\* lines 116-151
search_bing(api_key, answer) ==
    IF api_key = "" THEN Return(<<>>)
    ELSE IF answer.raises THEN Return(<<>>)
    ELSE IF answer.status_code = 200 THEN Return(answer.results)
    ELSE Return(<<>>)

\* lines 153-191
search_duckduckgo(answer) ==
    IF answer.raises THEN Return(<<>>)
    ELSE IF answer.status_code = 200 THEN Return(first_n(answer.results, 5))
    ELSE Return(<<>>)

\* line 653: f"{result.get('title', '')} {result.get('content', '')}"
result_text(result) == result.title \o " " \o result.content

---------------------------------------------------------------------------
(* Idle values of the parts a specification does not exercise              *)

RunIdle ==
    /\ pc = "idle" /\ research_methods = {} /\ all_emails = {} /\ all_phones = {}
    /\ method_results = [m \in {} |-> {}] /\ src = [m \in {} |-> {}] /\ applied = <<>>
    /\ shown_patterns = <<>>
    /\ external_calls = {} /\ export_data = {}
VIdle == v_pc = "idle" /\ v_arg = PyNone /\ v_ret = Return(FALSE) /\ v_emails = {}
CIdle == c_pc = "idle" /\ c_arg = <<>> /\ c_ret = <<>>
XIdle == x_pc = "idle" /\ x_text = "" /\ x_emails = {} /\ x_phones = {}
GIdle == g_pc = "idle" /\ g_domain = "" /\ g_country = "" /\ g_industry = "" /\ g_ret = <<>>
TIdle == t_pc = "idle" /\ t_text = "" /\ t_ret = Return(PyNone)
SIdle ==
    /\ s_pc = "idle" /\ max_pages = 0 /\ site = <<>> /\ s_i = 0 /\ response = PyNone
    /\ s_all_emails = {} /\ s_all_phones = {} /\ pages_scraped = <<>>
    /\ successful_scrapes = 0 /\ s_trace = <<>> /\ s_ret = PyNone
WIdle ==
    /\ w_pc = "idle" /\ w_country = "" /\ api_keys = <<>> /\ w_served = <<>>
    /\ all_results = <<>> /\ w_ret = PyNone

---------------------------------------------------------------------------
(* main(): the aggregate of a research run and the merge of each method's  *)
(* result into it                                                          *)

\* the keys main() uses in method_results
MergeMethods == {"whois", "website_scraping", "web_search", "ai_research"}

\* the research methods of the sidebar that main() runs as steps
Methods == MergeMethods \cup {"email_patterns"}

\* lines 987-989: all_emails = set(); all_phones = set(); method_results = {}
EmptyAggregate == [all_emails |-> {}, all_phones |-> {}, method_results |-> [m \in {} |-> {}]]

\* the WHOIS merge without line 1017: the emails are not recorded
merge_whois_unrecorded(agg, whois_info) ==
    IF ~whois_info.error /\ whois_info.emails # {}
    THEN LET whois_emails == {lower(email) : email \in whois_info.emails} IN
         [all_emails |-> agg.all_emails \cup whois_emails,
          all_phones |-> agg.all_phones,
          method_results |-> agg.method_results]
    ELSE agg

\* lines 1002, 1014-1017: whois_info is the dict get_whois_info returned;
\* it has the key 'emails' only with a non-empty list
merge_whois(agg, whois_info) ==
    IF ~whois_info.error /\ whois_info.emails # {}
    THEN LET whois_emails == {lower(email) : email \in whois_info.emails} IN
         [all_emails |-> agg.all_emails \cup whois_emails,
          all_phones |-> agg.all_phones,
          method_results |-> Put(agg.method_results, "whois", whois_emails)]
    ELSE agg

\* the scraping merge with all_emails assigned instead of updated
merge_scraping_assign(agg, scraping_results) ==
    IF scraping_results.emails # {} \/ scraping_results.phones # {}
    THEN [all_emails |-> scraping_results.emails,
          all_phones |-> agg.all_phones \cup scraping_results.phones,
          method_results |-> Put(agg.method_results, "website_scraping", scraping_results.emails)]
    ELSE agg

\* lines 1042, 1050-1052
merge_scraping(agg, scraping_results) ==
    IF scraping_results.emails # {} \/ scraping_results.phones # {}
    THEN [all_emails |-> agg.all_emails \cup scraping_results.emails,
          all_phones |-> agg.all_phones \cup scraping_results.phones,
          method_results |-> Put(agg.method_results, "website_scraping", scraping_results.emails)]
    ELSE agg

\* the web-search merge recording only the emails no earlier merge had found
merge_web_search_new_only(agg, web_results) ==
    IF web_results.emails # {} \/ web_results.phones # {}
    THEN [all_emails |-> agg.all_emails \cup web_results.emails,
          all_phones |-> agg.all_phones \cup web_results.phones,
          method_results |-> Put(agg.method_results, "web_search",
                                 web_results.emails \ agg.all_emails)]
    ELSE agg

\* lines 1091, 1097-1099
merge_web_search(agg, web_results) ==
    IF web_results.emails # {} \/ web_results.phones # {}
    THEN [all_emails |-> agg.all_emails \cup web_results.emails,
          all_phones |-> agg.all_phones \cup web_results.phones,
          method_results |-> Put(agg.method_results, "web_search", web_results.emails)]
    ELSE agg

\* lines 1144, 1158-1159: ai is what ai_research_step gives
merge_ai_research(agg, ai) ==
    IF ai.kind = "table"
    THEN [all_emails |-> agg.all_emails \cup ai.emails,
          all_phones |-> agg.all_phones,
          method_results |-> Put(agg.method_results, "ai_research", ai.emails)]
    ELSE agg

Merge(m, agg, result) ==
    CASE m = "whois" -> merge_whois(agg, result)
      [] m = "website_scraping" -> merge_scraping(agg, result)
      [] m = "web_search" -> merge_web_search(agg, result)
      [] m = "ai_research" -> merge_ai_research(agg, result)

\* lines 1309-1312: the methods whose recorded set holds the contact
found_by_methods(results, contact) ==
    {method \in DOMAIN results : contact \in results[method]}

Aggregate == [all_emails |-> all_emails, all_phones |-> all_phones,
              method_results |-> method_results]

SetAggregate(agg) ==
    /\ all_emails' = agg.all_emails
    /\ all_phones' = agg.all_phones
    /\ method_results' = agg.method_results

\* what the methods can return in the model
\* the texts of the pages and of the search results, and what
\* extract_contacts_from_text finds in them
EmailTexts == {"", "Info@acme.com", "Info@acme.com, J.Smith@acme.co"}
PageTexts == {"", "call 555-123-4567"}
SnippetTexts == {"", "Tel: (555) 123-4567"}
EmailSets == {extract_contacts_from_text(text).emails : text \in EmailTexts}
WhoisEmailSets ==
    {{}, {"Info@Acme.com"}, {"info@acme.com", "hostmaster@acme.com"},
     {"noreply@acme.com", "abuse@registrar.example"}}
PhoneSets == {extract_contacts_from_text(text).phones : text \in PageTexts}
WebPhoneSets == {extract_contacts_from_text(text).phones : text \in SnippetTexts}

ContactResults == {[emails |-> E, phones |-> P] : E \in EmailSets, P \in PhoneSets}
WebContactResults == {[emails |-> E, phones |-> P] : E \in EmailSets, P \in WebPhoneSets}
\* what whois.whois gives for the domain
WhoisRecords ==
    {[raises |-> TRUE, emails |-> {}]}
    \cup {[raises |-> FALSE, emails |-> E] : E \in WhoisEmailSets}
WhoisResults == {get_whois_info(w) : w \in WhoisRecords}

\* the reports an AI provider answers with
AIReports ==
    {"No contacts found.",
     "| Name | Email |\n|---|---|\n| Jane | Info@acme.com |",
     "| Name | Email |\n|---|---|\n| Jane | Info@acme.com |\n| John | j.smith@acme.co |",
     "| Name | Email |\n|---|---|\n| Jane | jane@acme.com (estimated) |"}

AIReplies ==
    {ApiResponse(200, report) : report \in AIReports}
    \cup {ApiResponse(500, "Internal Server Error"), ApiRaises("Read timed out.")}

\* the provider and key of the sidebar with the answer of the API
AIQueries ==
    {[provider |-> "openai", api_key |-> key, reply |-> reply] :
        key \in {"sk-1"}, reply \in AIReplies}
    \cup {[provider |-> "openai", api_key |-> "", reply |-> ApiRaises("")],
          [provider |-> "tavily", api_key |-> "sk-1", reply |-> ApiRaises("")]}

AIResults == {ai_research_step(query) : query \in AIQueries}

ResultsOf(m) ==
    CASE m = "whois" -> WhoisResults
      [] m = "website_scraping" -> ContactResults
      [] m = "web_search" -> WebContactResults
      [] m = "ai_research" -> AIResults

---------------------------------------------------------------------------
(* Spec: one research run of main(), lines 966-1238: the selected methods  *)
(* run in the order of the code, each result merged as it returns          *)

\* a timeout in seconds passed to a call
Seconds(n) == [type |-> "int", n |-> n]

\* a call to the network and its timeout argument, None when the call is
\* made without one
ExternalCall(function, timeout) == [function |-> function, timeout |-> timeout]

\* line 669: whois.whois(domain)
whois_call == ExternalCall("whois.whois", PyNone)
\* lines 305, 311
safe_request_call == ExternalCall("safe_request", Seconds(15))
\* line 104
search_tavily_call == ExternalCall("search_tavily", Seconds(30))
\* line 134
search_bing_call == ExternalCall("search_bing", Seconds(30))
\* line 166
search_duckduckgo_call == ExternalCall("search_duckduckgo", Seconds(15))
\* lines 540, 569, 598
ai_query_call(provider) == ExternalCall("query " \o provider, Seconds(120))

\* lines 627-647: the providers search_web_sources calls, by the keys set
search_calls(tavily_key, bing_key) ==
    (IF tavily_key # "" THEN {search_tavily_call} ELSE {})
    \cup (IF bing_key # "" THEN {search_bing_call} ELSE {})
    \cup (IF tavily_key = "" /\ bing_key = "" THEN {search_duckduckgo_call} ELSE {})

\* the keys of Tavily and Bing typed in the sidebar
SearchKeys == {<<"", "">>, <<"key-1", "key-2">>}

\* the calls to the network a method of the run makes: each element is what
\* one run of the method can make
CallsOf(m, result) ==
    CASE m = "whois" -> {{whois_call}}
      [] m = "website_scraping" -> {{safe_request_call}}
      [] m = "web_search" ->
            {search_calls(keys[1], keys[2]) : keys \in SearchKeys}
      [] m = "ai_research" ->
            {IF result.query.api_key # ""
                  /\ result.query.provider \in {"perplexity", "openai", "anthropic"}
             THEN {ai_query_call(result.query.provider)} ELSE {}}

RunInit ==
    /\ pc = "whois"
    /\ research_methods \in SUBSET Methods
    /\ all_emails = {} /\ all_phones = {} /\ method_results = [m \in {} |-> {}]
    /\ src = [m \in {} |-> {}]
    /\ applied = <<>>
    /\ shown_patterns = <<>>
    /\ external_calls = {} /\ export_data = {}

\* one method of the run: skipped when not selected, else its result is
\* merged
RunMethod(m, next) ==
    /\ pc = m
    /\ pc' = next
    /\ IF m \in research_methods
       THEN \E result \in ResultsOf(m) :
               /\ SetAggregate(Merge(m, Aggregate, result))
               /\ src' = Put(src, m, result)
               /\ applied' = Append(applied, m)
               /\ \E made \in CallsOf(m, result) : external_calls' = external_calls \cup made
       ELSE UNCHANGED <<all_emails, all_phones, method_results, src, applied, external_calls>>
    /\ UNCHANGED <<research_methods, shown_patterns, export_data,
                   v_vars, c_vars, x_vars, g_vars, t_vars, w_vars, s_vars>>

\* lines 993-1022
WhoisLookup == RunMethod("whois", "website_scraping")
\* lines 1024-1065
WebsiteScraping == RunMethod("website_scraping", "web_search")
\* lines 1067-1113
WebSearch == RunMethod("web_search", "ai_research")
\* lines 1115-1173
AIResearch == RunMethod("ai_research", "email_patterns")

\* line 978 for the website of the run
website_domain == "acme.com"

\* lines 950-951, 960: the country and the industry typed in the sidebar
\* and the Include Email Patterns box
SidebarCountries == {"Germany", "France"}
SidebarIndustries == {"", "Software"}

\* lines 1184-1189: the first six emails of every group are displayed
displayed(generated) ==
    [name \in DOMAIN generated |->
        SubSeq(generated[name], 1, IF Len(generated[name]) < 6 THEN Len(generated[name]) ELSE 6)]

\* the Email Patterns step with the candidates added to the found emails
EmailPatterns_merged ==
    /\ pc = "email_patterns"
    /\ pc' = "results"
    /\ \E include_patterns \in BOOLEAN, country \in SidebarCountries,
          industry \in SidebarIndustries :
          IF "email_patterns" \in research_methods /\ include_patterns
          THEN LET generated == generate_email_patterns(website_domain, country, industry) IN
               /\ shown_patterns' = displayed(generated)
               /\ all_emails' = all_emails \cup UNION {Range(generated[name]) : name \in DOMAIN generated}
          ELSE UNCHANGED <<shown_patterns, all_emails>>
    /\ UNCHANGED <<research_methods, all_phones, method_results, src, applied,
                   external_calls, export_data, v_vars, c_vars, x_vars, g_vars, t_vars, w_vars, s_vars>>

\* lines 1175-1189: the generated patterns are displayed only
EmailPatterns ==
    /\ pc = "email_patterns"
    /\ pc' = "results"
    /\ \E include_patterns \in BOOLEAN, country \in SidebarCountries,
          industry \in SidebarIndustries :
          IF "email_patterns" \in research_methods /\ include_patterns
          THEN shown_patterns' =
                  displayed(generate_email_patterns(website_domain, country, industry))
          ELSE UNCHANGED shown_patterns
    /\ UNCHANGED <<research_methods, all_emails, all_phones, method_results, src, applied,
                   external_calls, export_data, v_vars, c_vars, x_vars, g_vars, t_vars, w_vars, s_vars>>

\* str.title() of a word of letters
title(word) == IF word = "" THEN "" ELSE upper(Head(word)) \o lower(Tail(word))

RECURSIVE join(_, _)
\* sep.join(items)
join(items, sep) ==
    IF items = <<>> THEN ""
    ELSE IF Len(items) = 1 THEN items[1]
    ELSE items[1] \o sep \o join(Tail(items), sep)

RECURSIVE list_of(_)
\* list(a_set): the elements of the set in an order
list_of(S) ==
    IF S = {} THEN <<>>
    ELSE LET first == CHOOSE e \in S : TRUE IN <<first>> \o list_of(S \ {first})

\* method_results.items(): in a run the keys are inserted in the order of
\* the steps
method_keys(results) ==
    LET recorded(method) == method \in DOMAIN results
    IN  SelectSeq(<<"whois", "website_scraping", "web_search", "ai_research">>, recorded)

\* lines 1309-1312, 1318
Found_By(results, email) ==
    LET holds(method) == email \in results[method]
    IN  join(SelectSeq(method_keys(results), holds), ", ")

\* lines 1305-1325: the records of the emails
email_records(categories, results) ==
    UNION {{[Contact |-> categories[category][k], Type |-> "Email",
             Category |-> title(category),
             Found_By |-> Found_By(results, categories[category][k])] :
                k \in 1..Len(categories[category])} : category \in DOMAIN categories}

\* lines 1327-1340: the records of the phones
phone_records(phones) ==
    {[Contact |-> phone, Type |-> "Phone", Category |-> "General",
      Found_By |-> "multi-source"] : phone \in phones}

\* the emails the methods of the model can find, and categorize_emails of
\* every set of them
RunEmails ==
    UNION {{lower(email) : email \in result.emails} :
              result \in WhoisResults \cup ContactResults \cup WebContactResults \cup AIResults}
Categorized == {<<emails, categorize_emails(list_of(emails))>> : emails \in SUBSET RunEmails}
CategoriesOf(emails) == (CHOOSE t \in Categorized : t[1] = emails)[2]

\* lines 1244, 1303-1340: export_data is built when a contact was found.
\* Of each record the keys Contact, Type, Category and Found_By are kept.
ExportResults ==
    /\ pc = "results"
    /\ pc' = "exported"
    /\ IF all_emails # {} \/ all_phones # {}
       THEN export_data' = email_records(CategoriesOf(all_emails), method_results)
                              \cup phone_records(all_phones)
       ELSE UNCHANGED export_data
    /\ UNCHANGED <<research_methods, all_emails, all_phones, method_results, src, applied,
                   shown_patterns, external_calls, v_vars, c_vars, x_vars, g_vars, t_vars, w_vars,
                   s_vars>>

Init == RunInit /\ VIdle /\ CIdle /\ XIdle /\ GIdle /\ TIdle /\ SIdle /\ WIdle
Next ==
    WhoisLookup \/ WebsiteScraping \/ WebSearch \/ AIResearch \/ EmailPatterns \/ ExportResults
Spec == Init /\ [][Next]_vars

---------------------------------------------------------------------------
(* SpecMerge: the four merges of main() folded into an empty aggregate in  *)
(* any order, each any number of times, with the result each method        *)
(* returned in the run                                                     *)

MaxMerges == 3

MergeInit ==
    /\ pc = "merge"
    /\ research_methods = MergeMethods
    /\ all_emails = {} /\ all_phones = {} /\ method_results = [m \in {} |-> {}]
    /\ src \in [MergeMethods ->
                  WhoisResults \cup ContactResults \cup WebContactResults \cup AIResults]
    /\ \A m \in MergeMethods : src[m] \in ResultsOf(m)
    /\ applied = <<>>
    /\ shown_patterns = <<>>
    /\ external_calls = {} /\ export_data = {}

Fold(m) ==
    /\ pc = "merge"
    /\ Len(applied) < MaxMerges
    /\ SetAggregate(Merge(m, Aggregate, src[m]))
    /\ applied' = Append(applied, m)
    /\ UNCHANGED <<pc, research_methods, src, shown_patterns, external_calls, export_data,
                   v_vars, c_vars, x_vars, g_vars, t_vars, w_vars, s_vars>>

FoldWhois == Fold("whois")
FoldScraping == Fold("website_scraping")
FoldWebSearch == Fold("web_search")
FoldAIResearch == Fold("ai_research")

InitMerge == MergeInit /\ VIdle /\ CIdle /\ XIdle /\ GIdle /\ TIdle /\ SIdle /\ WIdle
NextMerge == FoldWhois \/ FoldScraping \/ FoldWebSearch \/ FoldAIResearch
SpecMerge == InitMerge /\ [][NextMerge]_vars

---------------------------------------------------------------------------
(* Properties of the merges                                                *)

\* C1: every email of all_emails and every phone of all_phones is recorded
\* in method_results under at least one method.
C1_EveryContactHasProvenance ==
    \A contact \in all_emails \cup all_phones :
        found_by_methods(method_results, contact) # {}

\* the order main() runs the merges in
CodeOrder == <<"whois", "website_scraping", "web_search", "ai_research">>

RECURSIVE FoldInCodeOrder(_, _, _)
\* the results of the methods of S merged in the order of the code
FoldInCodeOrder(S, k, agg) ==
    IF k > Len(CodeOrder) THEN agg
    ELSE FoldInCodeOrder(S, k + 1,
             IF CodeOrder[k] \in S THEN Merge(CodeOrder[k], agg, src[CodeOrder[k]]) ELSE agg)

\* C2: whatever the order the results of distinct methods were folded into
\* the empty aggregate in, the emails, the phones and method_results are
\* those of the fold in the order of the code.
C2_OrderIndependent ==
    Distinct(applied) =>
        Aggregate = FoldInCodeOrder({applied[i] : i \in 1..Len(applied)}, 1, EmptyAggregate)

C2_Witness ==
    /\ Len(applied) = 3
    /\ applied = <<"ai_research", "web_search", "whois">>
    /\ DOMAIN method_results = {"ai_research", "web_search", "whois"}
    /\ method_results["whois"] # method_results["web_search"]
    /\ method_results["ai_research"] # {}
    /\ all_phones # {}

\* C3: folding in the result of a method that was folded in before leaves
\* the emails, the phones and method_results as they are.
C3_Idempotent ==
    [][(\E i \in 1..Len(applied) : applied' = Append(applied, applied[i]))
           => /\ all_emails' = all_emails
              /\ all_phones' = all_phones
              /\ method_results' = method_results]_vars

C3_Witness ==
    /\ Len(applied) = 2
    /\ applied[1] = applied[2]
    /\ applied[1] \in DOMAIN method_results
    /\ method_results[applied[1]] # {}
    /\ all_emails # {}

---------------------------------------------------------------------------
(* SpecValid: one call of is_valid_email from scrape_website               *)
(* (mailto target, lines 382-384; JSON-LD email field, lines 400-402)      *)

CandidateLocals == {"info", "j.smith", "noreply", "John", "test", "my-dummy", "a"}
CandidateSeparators == {"@", "", "@@"}
CandidateDomains ==
    {"example.com", "acme.co", "acme.com", "GOOGLE.com", "acme", "",
     "b.c@d", "b@c.com", "mail.Example.com"}

\* what the scraper can hand to is_valid_email
Candidates ==
    {PyStr(l \o a \o d) : l \in CandidateLocals, a \in CandidateSeparators, d \in CandidateDomains}
    \cup {PyStr("not-an-email"), PyStr(""), PyStr("@"), PyStr("Fake.Name@acme.co")}
    \cup {PyInt, PyNone, PyList(<<"a@acme.co">>), PyList(<<"@", "acme.co">>),
          PyDict({"@"}), PyDict({"value"})}

VInit == v_pc = "call" /\ v_arg \in Candidates /\ v_ret = Return(FALSE) /\ v_emails = {}

\* if self.is_valid_email(email): emails.add(email.lower())
CallIsValidEmail ==
    /\ v_pc = "call"
    /\ LET r == is_valid_email(v_arg) IN
        /\ v_ret' = r
        /\ v_pc' = IF r.exc THEN "raised" ELSE "returned"
        /\ v_emails' = IF ~r.exc /\ r.value THEN v_emails \cup {lower(v_arg.s)} ELSE v_emails
    /\ UNCHANGED <<v_arg, run_vars, c_vars, x_vars, g_vars, t_vars, w_vars, s_vars>>

InitValid == VInit /\ RunIdle /\ CIdle /\ XIdle /\ GIdle /\ TIdle /\ SIdle /\ WIdle
NextValid == CallIsValidEmail
SpecValid == InitValid /\ [][NextValid]_vars

---------------------------------------------------------------------------
(* SpecCat: one call of categorize_emails(list(all_emails))                *)

MaxEmails == 2

EmailPool ==
    {"sales.hr@x.com", "john.smith@x.com", "jane.doe@x.com", "bob.@x.com",
     "bob@x.com", "a.b.c@x.com", "ceo@x.com", "info@x.com", "hr.sales@x.com",
     "Jane.Roe@x.com", "hr@x.com"}

RECURSIVE ListsOf(_, _)
\* the lists of at most n distinct elements of S
ListsOf(S, n) ==
    IF n = 0 THEN {<<>>}
    ELSE LET shorter == ListsOf(S, n - 1)
             longer == {Append(l, e) : l \in shorter, e \in S}
         IN  shorter \cup {l \in longer : Distinct(l)}

CInit == c_pc = "call" /\ c_arg \in ListsOf(EmailPool, MaxEmails) /\ c_ret = <<>>

CallCategorizeEmails ==
    /\ c_pc = "call"
    /\ c_ret' = categorize_emails(c_arg)
    /\ c_pc' = "returned"
    /\ UNCHANGED <<c_arg, run_vars, v_vars, x_vars, g_vars, t_vars, w_vars, s_vars>>

InitCat == CInit /\ RunIdle /\ VIdle /\ XIdle /\ GIdle /\ TIdle /\ SIdle /\ WIdle
NextCat == CallCategorizeEmails
SpecCat == InitCat /\ [][NextCat]_vars

---------------------------------------------------------------------------
(* Properties of categorize_emails, checked under SpecCat                  *)

\* the email is in the list the result holds for category c
Listed(ret, c, email) == c \in DOMAIN ret /\ email \in Range(ret[c])

\* the text before the first '@'
BeforeAt(email) ==
    IF Contains(email, "@")
    THEN SubSeq(email, 1, (CHOOSE i \in 1..Len(email) :
                              /\ Char(email, i) = "@"
                              /\ \A j \in 1..(i - 1) : Char(email, j) # "@") - 1)
    ELSE email

DocumentedOrder ==
    <<"executive", "sales", "support", "hr", "technical", "marketing", "finance", "general">>

RulePatterns(name) ==
    (CHOOSE g \in Range(patterns) : g.category = name).pattern_list

\* the positions in DocumentedOrder of the groups with a pattern in the local part
RuleHits(email) ==
    {i \in 1..Len(DocumentedOrder) :
        \E pat \in Range(RulePatterns(DocumentedOrder[i])) :
            Contains(lower(BeforeAt(email)), pat)}

\* C4: every email with a matching rule group is listed under the first
\* matching group of the order executive, sales, support, hr, technical,
\* marketing, finance, general, and under no other category;
\* sales.hr@x.com is listed under sales, not hr.
C4_FirstGroupWins ==
    c_pc = "returned" =>
        /\ \A n \in 1..Len(c_arg) :
            LET hits == RuleHits(c_arg[n]) IN
            hits # {} =>
                LET first == CHOOSE i \in hits : \A h \in hits : i <= h IN
                /\ Listed(c_ret, DocumentedOrder[first], c_arg[n])
                /\ \A c \in category_names \ {DocumentedOrder[first]} :
                       ~Listed(c_ret, c, c_arg[n])
        /\ "sales.hr@x.com" \in Range(c_arg) =>
               /\ Listed(c_ret, "sales", "sales.hr@x.com")
               /\ ~Listed(c_ret, "hr", "sales.hr@x.com")

C4_Witness ==
    /\ c_pc = "returned"
    /\ "sales.hr@x.com" \in Range(c_arg)
    /\ Cardinality(RuleHits("sales.hr@x.com")) = 2
    /\ Listed(c_ret, "sales", "sales.hr@x.com")

\* C5: categorize_emails(["john.smith@x.com"]) is {personal: [john.smith@x.com]}.
C5_JohnSmithPersonal ==
    (c_pc = "returned" /\ c_arg = <<"john.smith@x.com">>) =>
        /\ DOMAIN c_ret = {"personal"}
        /\ c_ret["personal"] = <<"john.smith@x.com">>

\* exactly one '.' that splits the local part into two non-empty segments
TwoNonEmptySegments(local) ==
    /\ Cardinality({i \in 1..Len(local) : Char(local, i) = "."}) = 1
    /\ Char(local, 1) # "."
    /\ Char(local, Len(local)) # "."

\* C6: an email no rule group matches is listed under personal if and only
\* if its local part has exactly one '.' with a non-empty segment on either
\* side, and under general otherwise.
C6_PersonalIffTwoSegments ==
    c_pc = "returned" =>
        \A n \in 1..Len(c_arg) :
            RuleHits(c_arg[n]) = {} =>
                LET local == lower(BeforeAt(c_arg[n])) IN
                /\ Listed(c_ret, "personal", c_arg[n]) <=> TwoNonEmptySegments(local)
                /\ Listed(c_ret, "general", c_arg[n]) <=> ~TwoNonEmptySegments(local)

\* C7: the result partitions the input list: every input email is in
\* exactly one category list, exactly once; the lists hold input emails
\* only; every key of the result has a non-empty list.
C7_Partition ==
    c_pc = "returned" =>
        /\ \A e \in Range(c_arg) :
               Cardinality({c \in DOMAIN c_ret : e \in Range(c_ret[c])}) = 1
        /\ \A c \in DOMAIN c_ret :
               /\ c_ret[c] # <<>>
               /\ Distinct(c_ret[c])
               /\ Range(c_ret[c]) \subseteq Range(c_arg)
        /\ DOMAIN c_ret \subseteq category_names

C7_Witness ==
    /\ c_pc = "returned"
    /\ Len(c_arg) = 2
    /\ Cardinality(DOMAIN c_ret) = 2
    /\ \E e \in Range(c_arg) : Cardinality(RuleHits(e)) > 1

---------------------------------------------------------------------------
(* Properties of is_valid_email, checked under SpecValid                   *)

\* the text after the first '@', up to the next '@' if there is one
AfterAt(s) ==
    LET first == CHOOSE i \in 1..Len(s) :
                     Char(s, i) = "@" /\ \A j \in 1..(i - 1) : Char(s, j) # "@"
        rest == SubSeq(s, first + 1, Len(s))
        stops == {i \in 1..Len(rest) : Char(rest, i) = "@"}
    IN  IF stops = {} THEN rest
        ELSE SubSeq(rest, 1, (CHOOSE i \in stops : \A k \in stops : i <= k) - 1)

LacksAt(s) == "@" \notin CharsOf(s)
DomainLacksDot(s) == "." \notin CharsOf(AfterAt(s))
DomainExcluded(s) == \E d \in excluded_domains : lower(AfterAt(s)) = lower(d)
HasIndicator(s) == \E p \in Range(fake_patterns) : Contains(lower(s), lower(p))

\* C8: a str candidate is accepted exactly when it has an '@', a '.' in the
\* part after the '@', a domain outside the exclusion set and no placeholder
\* indicator, all compared case-insensitively; info@example.com,
\* noreply@acme.com and not-an-email are rejected, j.smith@acme.co accepted.
C8_RejectsExactlyDefects ==
    (v_pc = "returned" /\ v_arg.type = "str") =>
        /\ v_ret.value <=>
               ~(\/ LacksAt(v_arg.s)
                 \/ DomainLacksDot(v_arg.s)
                 \/ DomainExcluded(v_arg.s)
                 \/ HasIndicator(v_arg.s))
        /\ v_arg.s \in {"info@example.com", "noreply@acme.com", "not-an-email"}
               => ~v_ret.value
        /\ v_arg.s = "j.smith@acme.co" => v_ret.value

C8_Witness ==
    /\ v_pc = "returned"
    /\ v_arg = PyStr("info@GOOGLE.com")
    /\ DomainExcluded(v_arg.s)
    /\ ~v_ret.value

---------------------------------------------------------------------------
(* SpecExtract: one call of extract_contacts_from_text                     *)

TextLeads == {"Contact: ", ""}
TextLocals == {"john", "Info"}
TextAts == {" (at) ", "@", " at ", " [at] "}
TextDomains == {"acme", "example"}
TextDots == {" (dot) ", ".", " dot "}
TextPhones == {"555-123-4567", "123-4567", "+49 30 1234567"}

\* page and snippet texts handed to the extractor
Texts ==
    {lead \o local \o at \o domain \o dot \o "com or call " \o phone :
        lead \in TextLeads, local \in TextLocals, at \in TextAts,
        domain \in TextDomains, dot \in TextDots, phone \in TextPhones}

XInit == x_pc = "call" /\ x_text \in Texts /\ x_emails = {} /\ x_phones = {}

\* emails, phones = self.extract_contacts_from_text(text)
CallExtractContacts ==
    /\ x_pc = "call"
    /\ LET r == extract_contacts_from_text(x_text) IN
        /\ x_emails' = r.emails
        /\ x_phones' = r.phones
    /\ x_pc' = "returned"
    /\ UNCHANGED <<x_text, run_vars, v_vars, c_vars, g_vars, t_vars, w_vars, s_vars>>

InitExtract == XInit /\ RunIdle /\ VIdle /\ CIdle /\ GIdle /\ TIdle /\ SIdle /\ WIdle
NextExtract == CallExtractContacts
SpecExtract == InitExtract /\ [][NextExtract]_vars

---------------------------------------------------------------------------
(* Properties of extract_contacts_from_text, checked under SpecExtract     *)

\* C10: from "Contact: john (at) acme (dot) com or call 555-123-4567" the
\* extractor returns the emails {john@acme.com} and a phone whose digits
\* are 5551234567.
C10_ObfuscatedRoundTrip ==
    (x_pc = "returned"
     /\ x_text = "Contact: john (at) acme (dot) com or call 555-123-4567") =>
        /\ x_emails = {"john@acme.com"}
        /\ \E phone \in x_phones : keep_chars(phone, Digits) = "5551234567"

C10_Witness ==
    /\ x_pc = "returned"
    /\ x_text = "Contact: john (at) acme (dot) com or call 555-123-4567"
    /\ "john@acme.com" \in x_emails
    /\ x_phones # {}

---------------------------------------------------------------------------
(* SpecScrape: one call of scrape_website, lines 322-436, a step at a time *)
(* through the page loop                                                   *)

MaxPages == 3

base_url == "https://acme.com"

\* the elements of a document: a text node, a link, a script
TextNode(within, text) ==
    [tag |-> "p", within |-> within, text |-> text, href |-> "", type |-> "", data |-> PyNone]
LinkNode(within, text, href) ==
    [tag |-> "a", within |-> within, text |-> text, href |-> href, type |-> "", data |-> PyNone]
ScriptNode(type, data) ==
    [tag |-> "script", within |-> "head", text |-> "", href |-> "", type |-> type, data |-> data]

Document(elements) == [unparsable |-> FALSE, elements |-> elements]

ContactPage == Document(<<TextNode("body", "Write to Info@acme.com or call 555-123-4567")>>)
ImprintPage == Document(<<TextNode("body", "Tel +49 1234567")>>)
LinkPage ==
    Document(<<LinkNode("body", "Email us", "mailto:Sales@acme.com?subject=Hi"),
               LinkNode("body", "", "tel: (555) 123-4567"),
               LinkNode("body", "", "tel:123-4567")>>)
StructuredPage ==
    Document(<<LinkNode("footer", "Press", "mailto:press@acme.com"),
               ScriptNode("application/ld+json",
                          [type |-> "dict",
                           fields |-> [email |-> PyStr("ceo@acme.com"),
                                       telephone |-> PyStr("12345")]])>>)
BrokenPage == [unparsable |-> TRUE, elements |-> <<>>]
EmptyPage == Document(<<>>)

Pages == {ContactPage, ImprintPage, LinkPage, StructuredPage, BrokenPage}

\* what the web can serve for a URL
Served ==
    {[kind |-> k, status_code |-> 0, content |-> EmptyPage] : k \in {"timeout", "ssl", "network"}}
    \cup {[kind |-> "http", status_code |-> 200, content |-> p] : p \in Pages}
    \cup {[kind |-> "http", status_code |-> c, content |-> EmptyPage] : c \in {204, 404}}

\* page_contacts of every page of the model
PageContacts == {<<p, page_contacts(p)>> : p \in Pages}
ContactsOf(p) == (CHOOSE t \in PageContacts : t[1] = p)[2]

\* line 363: urls_to_check[:max_pages]
urls == SubSeq(urls_to_check(base_url), 1, max_pages)

ScrapeInit ==
    /\ s_pc = "fetch"
    /\ max_pages \in 1..MaxPages
    /\ site \in [1..max_pages -> Served]
    /\ s_i = 1
    /\ response = PyNone
    /\ s_all_emails = {} /\ s_all_phones = {}
    /\ pages_scraped = <<>>
    /\ successful_scrapes = 0
    /\ s_trace = <<>>
    /\ s_ret = PyNone

\* line 365
SafeRequest ==
    /\ s_pc = "fetch"
    /\ s_i <= Len(urls)
    /\ response' = safe_request(site[s_i]).response
    /\ s_trace' = Append(s_trace, "fetch")
    /\ s_pc' = "page"
    /\ UNCHANGED <<max_pages, site, s_i, s_all_emails, s_all_phones, pages_scraped,
                   successful_scrapes, s_ret, run_vars, v_vars, c_vars, x_vars, g_vars, t_vars, w_vars>>

\* the crawl given up at a response that is not a 200 page
NoPage_abort ==
    /\ s_pc' = "fetch"
    /\ s_i' = Len(urls) + 1
    /\ UNCHANGED <<s_all_emails, s_all_phones, pages_scraped, successful_scrapes>>

\* line 366 when the test fails: the iteration goes on to line 421
NoPage ==
    /\ s_pc' = "sleep"
    /\ UNCHANGED <<s_i, s_all_emails, s_all_phones, pages_scraped, successful_scrapes>>

\* lines 366-418, and lines 423-429 when the page raises
ProcessPage ==
    /\ s_pc = "page"
    /\ IF response_is_200(response)
       THEN \E found \in {ContactsOf(response.content)} :
            IF found.exc
            THEN /\ pages_scraped' = Append(pages_scraped,
                        [url |-> urls[s_i], emails_found |-> 0, phones_found |-> 0,
                         status |-> "error"])
                 /\ s_i' = s_i + 1
                 /\ s_pc' = "fetch"
                 /\ UNCHANGED <<s_all_emails, s_all_phones, successful_scrapes>>
            ELSE /\ s_all_emails' = s_all_emails \cup found.value.emails
                 /\ s_all_phones' = s_all_phones \cup found.value.phones
                 /\ IF found.value.emails # {} \/ found.value.phones # {}
                    THEN /\ successful_scrapes' = successful_scrapes + 1
                         /\ pages_scraped' = Append(pages_scraped,
                                [url |-> urls[s_i],
                                 emails_found |-> Cardinality(found.value.emails),
                                 phones_found |-> Cardinality(found.value.phones),
                                 status |-> "success"])
                    ELSE UNCHANGED <<successful_scrapes, pages_scraped>>
                 /\ s_pc' = "sleep"
                 /\ UNCHANGED s_i
       ELSE NoPage
    /\ UNCHANGED <<max_pages, site, response, s_trace, s_ret,
                   run_vars, v_vars, c_vars, x_vars, g_vars, t_vars, w_vars>>

\* line 421
RateLimit ==
    /\ s_pc = "sleep"
    /\ s_trace' = Append(s_trace, "sleep")
    /\ s_i' = s_i + 1
    /\ s_pc' = "fetch"
    /\ UNCHANGED <<max_pages, site, response, s_all_emails, s_all_phones, pages_scraped,
                   successful_scrapes, s_ret, run_vars, v_vars, c_vars, x_vars, g_vars, t_vars, w_vars>>

\* lines 431-436
ReturnScrape ==
    /\ s_pc = "fetch"
    /\ s_i > Len(urls)
    /\ s_ret' = [emails |-> s_all_emails, phones |-> s_all_phones,
                 pages_scraped |-> pages_scraped, successful_scrapes |-> successful_scrapes]
    /\ s_pc' = "returned"
    /\ UNCHANGED <<max_pages, site, s_i, response, s_all_emails, s_all_phones, pages_scraped,
                   successful_scrapes, s_trace, run_vars, v_vars, c_vars, x_vars, g_vars, t_vars, w_vars>>

InitScrape == ScrapeInit /\ RunIdle /\ VIdle /\ CIdle /\ XIdle /\ GIdle /\ TIdle /\ WIdle
NextScrape == SafeRequest \/ ProcessPage \/ RateLimit \/ ReturnScrape
SpecScrape == InitScrape /\ [][NextScrape]_vars

---------------------------------------------------------------------------
(* Properties of scrape_website, checked under SpecScrape                  *)

\* C11: every phone the extractor or the scraper has put in the result set
\* of the crawl has at least 10 digits once every character that is not a
\* digit is stripped.
C11_PhonesHaveTenDigits ==
    \A phone \in s_all_phones : Len(keep_chars(phone, Digits)) >= 10

\* a fetch that timed out, failed TLS, failed at the network level or got
\* an error status
failed_fetch(served) ==
    served.kind \in {"timeout", "ssl", "network"} \/ served.status_code >= 400

\* the pages among the first n candidate URLs that were fetched and
\* processed
processed_pages(n) ==
    {k \in 1..n : /\ site[k].kind = "http" /\ site[k].status_code = 200
                  /\ ~ContactsOf(site[k].content).exc}

fetches == Len(SelectSeq(s_trace, LAMBDA event : event = "fetch"))

\* C19: between two iterations and at the return, every candidate URL so
\* far was fetched whatever the earlier fetches gave, the emails and
\* phones are those of the pages fetched and processed, a failed fetch
\* adding none; at the return all the max_pages candidates were fetched
\* and the result holds these contacts.
C19_FailedFetchSkipped ==
    s_pc \in {"fetch", "returned"} =>
        /\ fetches = s_i - 1
        /\ \A k \in 1..(s_i - 1) : failed_fetch(site[k]) => k \notin processed_pages(s_i - 1)
        /\ s_all_emails =
              UNION {ContactsOf(site[k].content).value.emails : k \in processed_pages(s_i - 1)}
        /\ s_all_phones =
              UNION {ContactsOf(site[k].content).value.phones : k \in processed_pages(s_i - 1)}
        /\ s_pc = "returned" =>
              /\ fetches = max_pages
              /\ s_ret.emails = s_all_emails /\ s_ret.phones = s_all_phones

C19_Witness ==
    /\ s_pc = "returned"
    /\ max_pages = 3
    /\ site[1] = [kind |-> "http", status_code |-> 200, content |-> ContactPage]
    /\ site[2].kind = "timeout"
    /\ site[3] = [kind |-> "http", status_code |-> 200, content |-> LinkPage]
    /\ s_ret.emails = {"info@acme.com", "sales@acme.com"}
    /\ s_ret.phones = {"555-123-4567", "(555) 123-4567"}
    /\ fetches = 3

\* C20: a delay lies between any two consecutive page fetches of a crawl.
C20_DelayBetweenFetches ==
    \A k \in 1..(Len(s_trace) - 1) : s_trace[k] = "fetch" => s_trace[k + 1] = "sleep"

\* the structured candidates of a page as served: the valid emails of its
\* mailto: links and JSON-LD email fields, the phones of its tel: links and
\* JSON-LD telephone fields, wherever the element sits in the document
structured_candidates(content) ==
    [emails |-> mailto_emails(content.elements) \cup json_ld_emails(content.elements),
     phones |-> tel_phones(content.elements) \cup json_ld_phones(content.elements)]

StructuredCandidates == {<<p, structured_candidates(p)>> : p \in Pages \ {BrokenPage}}
StructuredOf(p) == (CHOOSE t \in StructuredCandidates : t[1] = p)[2]

\* C21: once a successfully fetched page is processed, every valid email of
\* a mailto: link or a JSON-LD email field and every phone of a tel: link
\* or a JSON-LD telephone field of the page is in the result of the crawl,
\* also when the link lies within nav, header, footer or aside and the
\* data within a script element.
C21_StructuredCandidatesKept ==
    s_pc \in {"fetch", "returned"} =>
        \A k \in processed_pages(s_i - 1) :
            /\ StructuredOf(site[k].content).emails \subseteq s_all_emails
            /\ StructuredOf(site[k].content).phones \subseteq s_all_phones

---------------------------------------------------------------------------
(* Properties of a run of main(), checked under Spec                       *)

\* the digits of a phone, after its leading plus if it has one
digit_key(phone) ==
    (IF startswith(phone, "+") THEN "+" ELSE "") \o keep_chars(phone, Digits)

\* C12: no two distinct phones of the aggregate have the same digit key,
\* the phone with every character removed but its digits and a leading
\* plus.
C12_PhonesDistinctByDigitKey ==
    \A p, q \in all_phones : p # q => digit_key(p) # digit_key(q)

\* the emails extract_contacts_from_text returned to the methods of the run
extractor_emails ==
    UNION {src[m].emails : m \in DOMAIN src \cap {"website_scraping", "web_search"}}

\* C13: every email the extractor returned and every email of the
\* aggregate is lowercase, and no two emails of the aggregate differ by
\* letter case only.
C13_EmailsLowercase ==
    /\ \A email \in extractor_emails \cup all_emails : email = lower(email)
    /\ \A e, f \in all_emails : lower(e) = lower(f) => e = f

C13_Witness ==
    /\ DOMAIN src = MergeMethods
    /\ "Info@Acme.com" \in src["whois"].emails
    /\ "info@acme.com" \in src["web_search"].emails
    /\ all_emails = {"info@acme.com"}

\* the candidates the Email Patterns step displayed
shown_candidates == UNION {Range(shown_patterns[name]) : name \in DOMAIN shown_patterns}

\* the emails the methods of the run found, as main() merges them
found_by_sources ==
    UNION {IF m = "whois" THEN {lower(email) : email \in src[m].emails} ELSE src[m].emails :
              m \in DOMAIN src}

\* C15: the Email Patterns step leaves all_emails, all_phones and
\* method_results as they were, and a displayed candidate is in the
\* aggregate only if a method of the run found it.
C15_PatternsNeverMerged ==
    [][pc = "email_patterns" =>
          /\ all_emails' = all_emails
          /\ all_phones' = all_phones
          /\ method_results' = method_results
          /\ all_emails' \cap shown_candidates' \subseteq found_by_sources]_vars

C15_Witness ==
    /\ pc = "results"
    /\ "kontakt@acme.com" \in shown_candidates
    /\ "dev@acme.com" \in shown_candidates
    /\ "info@acme.com" \in shown_candidates \cap all_emails
    /\ all_phones # {}

\* C22: every call to the network made in the run, the page fetch, the
\* search-provider queries, the AI query and the WHOIS lookup, was made
\* with a timeout.
C22_EveryCallHasTimeout ==
    \A call \in external_calls : call.timeout # PyNone

\* the methods whose result, as the method returned it in this run, holds
\* the contact
contributed_by(contact) ==
    {m \in DOMAIN src :
        \/ contact \in {lower(email) : email \in src[m].emails}
        \/ m \in {"website_scraping", "web_search"} /\ contact \in src[m].phones}

\* the names a Found_By value lists
names_in(found_by) ==
    IF found_by = "" THEN {} ELSE {strip(name) : name \in Range(split(found_by, ","))}

\* C24: the Found_By value of every exported record, of an email or of a
\* phone, names exactly the methods whose result held the contact.
C24_FoundByNamesSources ==
    \A record \in export_data : names_in(record.Found_By) = contributed_by(record.Contact)

\* a query that failed: no API key, an exception, a status that is not
\* 200, or a provider without an implementation
failed_query(query) ==
    \/ query.api_key = ""
    \/ query.provider \notin {"perplexity", "openai", "anthropic"}
    \/ query.reply.raises
    \/ query.reply.status_code # 200

\* C25: when the AI query failed, what it returned is not displayed as a
\* research report, is not handed to parse_markdown_table, and no email of
\* the AI source is merged or recorded.
C25_FailedQueryIsNoReport ==
    ("ai_research" \in DOMAIN src /\ failed_query(src["ai_research"].query)) =>
        /\ ~src["ai_research"].report
        /\ ~src["ai_research"].parsed
        /\ src["ai_research"].emails = {}
        /\ "ai_research" \notin DOMAIN method_results

\* C26: only the records of kind email carry a category: the record of a
\* phone has no category value, and the category map holds emails only.
C26_PhonesHaveNoCategory ==
    /\ \A record \in export_data : record.Type # "Email" => record.Category = ""
    /\ pc = "exported" =>
          \A category \in DOMAIN CategoriesOf(all_emails) :
              Range(CategoriesOf(all_emails)[category]) \subseteq all_emails

\* C28: every email of the aggregate satisfies is_valid_email, whichever
\* method contributed it.
C28_AggregateEmailsValid ==
    \A email \in all_emails : is_valid_email(PyStr(email)).value

\* C29: between any two steps of the run, all_emails is the union of the
\* email sets recorded in method_results.
C29_AggregateIsUnionOfMethods ==
    all_emails = UNION {method_results[method] : method \in DOMAIN method_results}

C29_Witness ==
    /\ pc = "email_patterns"
    /\ DOMAIN method_results = MergeMethods
    /\ method_results["whois"] = {"info@acme.com", "hostmaster@acme.com"}
    /\ method_results["website_scraping"] = {}
    /\ method_results["ai_research"] = {"info@acme.com", "j.smith@acme.co"}
    /\ all_emails = {"info@acme.com", "hostmaster@acme.com", "j.smith@acme.co"}

---------------------------------------------------------------------------
(* SpecPatterns: one call of generate_email_patterns                       *)

PatternDomains == {"acme.de", "acme.com"}
PatternCountries ==
    {"", "Germany", "GERMANY", "deutschland", "DE", "de", "France", "Germany "}
PatternIndustries ==
    {"", "Education", "Software", "Healthcare", "Retail", "University hospital",
     "Medical software", "EdTech", "Biotech clinic"}

GInit ==
    /\ g_pc = "call"
    /\ g_domain \in PatternDomains
    /\ g_country \in PatternCountries
    /\ g_industry \in PatternIndustries
    /\ g_ret = <<>>

CallGenerateEmailPatterns ==
    /\ g_pc = "call"
    /\ g_ret' = generate_email_patterns(g_domain, g_country, g_industry)
    /\ g_pc' = "returned"
    /\ UNCHANGED <<g_domain, g_country, g_industry, run_vars, v_vars, c_vars, x_vars,
                   t_vars, s_vars, w_vars>>

InitPatterns == GInit /\ RunIdle /\ VIdle /\ CIdle /\ XIdle /\ TIdle /\ SIdle /\ WIdle
NextPatterns == CallGenerateEmailPatterns
SpecPatterns == InitPatterns /\ [][NextPatterns]_vars

\* C14: the groups returned are Standard Business, Executive and
\* Departments; German Business, holding kontakt@<domain>, exactly when the
\* lowercased country is germany, deutschland or de; and the first of
\* Education, Technology, Healthcare with a keyword in the lowercased
\* industry, if there is one; never two industry groups.
C14_GroupNames ==
    g_pc = "returned" =>
        LET matches(words) == \E word \in words : Contains(lower(g_industry), word)
            industry_group ==
                IF matches({"education", "school", "university", "bildung"})
                THEN {"Education"}
                ELSE IF matches({"tech", "technology", "software"}) THEN {"Technology"}
                ELSE IF matches({"healthcare", "medical", "hospital"}) THEN {"Healthcare"}
                ELSE {}
            german == lower(g_country) \in {"germany", "deutschland", "de"}
        IN  /\ DOMAIN g_ret = {"Standard Business", "Executive", "Departments"}
                              \cup (IF german THEN {"German Business"} ELSE {})
                              \cup industry_group
            /\ german => ("kontakt@" \o g_domain) \in Range(g_ret["German Business"])
            /\ Cardinality(DOMAIN g_ret \cap {"Education", "Technology", "Healthcare"}) <= 1

C14_Witness ==
    /\ g_pc = "returned"
    /\ g_country = "DE"
    /\ g_industry = "Medical software"
    /\ DOMAIN g_ret = {"Standard Business", "Executive", "Departments",
                       "German Business", "Technology"}
    /\ g_ret["German Business"][1] = "kontakt@" \o g_domain

---------------------------------------------------------------------------
(* SpecTable: one call of parse_markdown_table on an AI report             *)

\* the lines an AI report is made of in the model
ReportLines ==
    {"| Name | Email |", "|---|---|", "|--|--|", "| Jane | j@x.co |", "| Bob |",
     "| Al | a@x.co | CEO |", "| | |", "| Jane | --- |", "Contacts:", "| | b@x.co |"}

\* the reports of one, two and three lines
Reports ==
    ReportLines
    \cup {a \o "\n" \o b : a \in ReportLines, b \in ReportLines}
    \cup {a \o "\n" \o b \o "\n" \o c :
             a \in ReportLines, b \in ReportLines, c \in ReportLines}

TInit ==
    /\ t_pc = "call"
    /\ t_text \in Reports
    /\ t_ret = Return(PyNone)

CallParseMarkdownTable ==
    /\ t_pc = "call"
    /\ t_ret' = parse_markdown_table(t_text)
    /\ t_pc' = "returned"
    /\ UNCHANGED <<t_text, run_vars, v_vars, c_vars, x_vars, g_vars, s_vars, w_vars>>

InitTable == TInit /\ RunIdle /\ VIdle /\ CIdle /\ XIdle /\ GIdle /\ SIdle /\ WIdle
NextTable == CallParseMarkdownTable
SpecTable == InitTable /\ [][NextTable]_vars

---------------------------------------------------------------------------
(* Properties of parse_markdown_table, checked under SpecTable             *)

\* a row whose content is dashes and pipes only, blanks apart
separator_row(line) ==
    /\ Contains(line, "-")
    /\ \A k \in 1..Len(line) : Char(line, k) \in {"-", "|", " "}

\* the rows of the table in the text, the separator rows dropped
usable_rows(text) ==
    LET usable(line) == Contains(line, "|") /\ strip(line) # "" /\ ~separator_row(line)
    IN  SelectSeq(split(text, "\n"), usable)

\* the rows after the header row
data_rows(text) == IF usable_rows(text) = <<>> THEN <<>> ELSE Tail(usable_rows(text))

has_non_empty_cell(line) == \E cell \in Range(stripped_cells(line)) : cell # ""

returned_table == t_ret.value # PyNone

\* C16: parse_markdown_table raises nothing and returns a table or None;
\* it returns None when fewer than two rows are left once the separator
\* rows are dropped, and when no data row has a non-empty cell.
C16_AbsentNeverError ==
    t_pc = "returned" =>
        /\ ~t_ret.exc
        /\ returned_table => t_ret.value.type = "DataFrame"
        /\ Len(usable_rows(t_text)) < 2 => ~returned_table
        /\ (\A k \in 1..Len(data_rows(t_text)) : ~has_non_empty_cell(data_rows(t_text)[k]))
              => ~returned_table

\* C17: every record has as many cells as the header, and the records are
\* the data rows that have a non-empty cell: such a row is kept, padded or
\* cut to the width of the header, and only a row without one is dropped.
C17_RecordsFitHeader ==
    t_pc = "returned" =>
        LET kept == SelectSeq(data_rows(t_text), has_non_empty_cell) IN
        IF returned_table
        THEN /\ \A k \in 1..Len(t_ret.value.rows) :
                    Len(t_ret.value.rows[k]) = Len(t_ret.value.columns)
             /\ Len(t_ret.value.rows) = Len(kept)
        ELSE (usable_rows(t_text) # <<>> /\ has_non_empty_cell(usable_rows(t_text)[1]))
                => kept = <<>>

\* cells of dashes only, as a separator row gives
dash_cells(cells) ==
    /\ \E k \in 1..Len(cells) : cells[k] # ""
    /\ \A k \in 1..Len(cells) : \A n \in 1..Len(cells[k]) : Char(cells[k], n) = "-"

\* C18: no separator row, whatever the number of its dashes, is the header
\* or a record of the table returned.
C18_SeparatorsDropped ==
    (t_pc = "returned" /\ returned_table) =>
        /\ ~dash_cells(t_ret.value.columns)
        /\ \A k \in 1..Len(t_ret.value.rows) : ~dash_cells(t_ret.value.rows[k])

\* a row written with a pipe at each end
outer_piped(line) ==
    Len(strip(line)) >= 2 /\ startswith(strip(line), "|")
        /\ Char(strip(line), Len(strip(line))) = "|"

\* the cells of such a row: what lies between its pipes
inner_cells(line) ==
    LET cells == stripped_cells(strip(line)) IN SubSeq(cells, 2, Len(cells) - 1)

\* C27: a data row written with outer pipes, with as many cells as the
\* header and a non-empty cell, gives the record that has its i-th cell
\* under the i-th header for every i, also when its first or last cell is
\* empty.
C27_ColumnsAligned ==
    t_pc = "returned" =>
        LET lines == table_lines(t_text) IN
        (Len(lines) >= 2 /\ outer_piped(lines[1])) =>
            \A k \in 2..Len(lines) :
                (/\ outer_piped(lines[k])
                 /\ Len(inner_cells(lines[k])) = Len(headers_of(lines[1]))
                 /\ has_non_empty_cell(lines[k]))
                    => /\ returned_table
                       /\ \E n \in 1..Len(t_ret.value.rows) :
                              t_ret.value.rows[n] = inner_cells(lines[k])

---------------------------------------------------------------------------
(* SpecSearch: one call of search_web_sources, lines 609-664, a provider   *)
(* at a time                                                               *)

search_company == "Acme"
search_website == "https://acme.com"
SearchCountries == {"Germany", "deutschland", "France"}

\* the result a provider has for its k-th query
SearchResult(provider, k) ==
    [title |-> "Acme", url |-> "https://acme.com/" \o provider,
     content |->
        CASE provider = "tavily" ->
                <<"Info@acme.com", "Tel: (555) 123-4567", "J.Smith@acme.co">>[k]
          [] provider = "bing" -> <<"sales@acme.com", "About us">>[k]
          [] provider = "duckduckgo" -> <<"call 555-123-4567", "hello@acme.com">>[k]]

\* what a provider can answer to its k-th query
AnswerKinds == {"raises", "error", "ok"}
SearchAnswer(provider, k, kind) ==
    CASE kind = "raises" -> SearchRaises
      [] kind = "error" -> SearchResponse(500, <<>>)
      [] kind = "ok" -> SearchResponse(200, <<SearchResult(provider, k)>>)

\* the queries a provider is sent, by the number of the loop
QueriesSent ==
    [provider \in {"tavily", "bing", "duckduckgo"} |->
        first_n(search_queries(search_company, search_website, w_country),
              IF provider = "tavily" THEN 3 ELSE 2)]

\* the contacts extract_contacts_from_text finds in every result text
ResultContacts ==
    {<<result_text(SearchResult(t[1], t[2])),
       extract_contacts_from_text(result_text(SearchResult(t[1], t[2])))>> :
        t \in {<<"tavily", 1>>, <<"tavily", 2>>, <<"tavily", 3>>, <<"bing", 1>>, <<"bing", 2>>,
                <<"duckduckgo", 1>>, <<"duckduckgo", 2>>}}
ContactsIn(text) == (CHOOSE t \in ResultContacts : t[1] = text)[2]

RECURSIVE extended(_, _)
\* all_results after all_results.extend(results) for every list of lists
extended(results, lists) ==
    IF lists = <<>> THEN results ELSE extended(results \o Head(lists), Tail(lists))

SearchInit ==
    /\ w_pc = "tavily"
    /\ w_country \in SearchCountries
    /\ api_keys \in [{"tavily", "bing"} -> {"", "key-1"}]
    /\ w_served = <<>>
    /\ all_results = <<>>
    /\ w_ret = PyNone

\* lines 630, 638, 645: the call of the provider's search
search(provider, answer) ==
    CASE provider = "tavily" -> search_tavily(api_keys["tavily"], answer)
      [] provider = "bing" -> search_bing(api_keys["bing"], answer)
      [] provider = "duckduckgo" -> search_duckduckgo(answer)

\* one loop of lines 629-647: every query of the loop is sent to the
\* provider, which answers it; a call that raises leaves search_web_sources
search_loop(provider, next) ==
    \E kinds \in [1..Len(QueriesSent[provider]) -> AnswerKinds] :
        /\ LET answers == [k \in DOMAIN kinds |-> SearchAnswer(provider, k, kinds[k])]
               returned == [k \in DOMAIN answers |-> search(provider, answers[k])]
               raising == {k \in DOMAIN answers : returned[k].exc}
               calls == IF raising = {} THEN Len(answers)
                        ELSE CHOOSE k \in raising : \A j \in raising : k <= j
           IN  /\ w_served' = w_served \o
                      [k \in 1..calls |->
                          [provider |-> provider, query |-> QueriesSent[provider][k],
                           answer |-> answers[k]]]
               /\ IF raising = {}
                  THEN /\ all_results' =
                             extended(all_results, [k \in DOMAIN answers |-> returned[k].value])
                       /\ w_pc' = next
                       /\ UNCHANGED w_ret
                  ELSE /\ all_results' =
                             extended(all_results, [k \in 1..(calls - 1) |-> returned[k].value])
                       /\ w_pc' = "raised"
                       /\ w_ret' = Raise

\* lines 627-632
SearchTavily ==
    /\ w_pc = "tavily"
    /\ IF api_keys["tavily"] # ""
       THEN search_loop("tavily", "bing")
       ELSE w_pc' = "bing" /\ UNCHANGED <<w_served, all_results, w_ret>>
    /\ UNCHANGED <<w_country, api_keys, run_vars, v_vars, c_vars, x_vars, g_vars, t_vars, s_vars>>

\* lines 635-640
SearchBing ==
    /\ w_pc = "bing"
    /\ IF api_keys["bing"] # ""
       THEN search_loop("bing", "duckduckgo")
       ELSE w_pc' = "duckduckgo" /\ UNCHANGED <<w_served, all_results, w_ret>>
    /\ UNCHANGED <<w_country, api_keys, run_vars, v_vars, c_vars, x_vars, g_vars, t_vars, s_vars>>

\* lines 643-647
SearchDuckDuckGo ==
    /\ w_pc = "duckduckgo"
    /\ IF api_keys["tavily"] = "" /\ api_keys["bing"] = ""
       THEN search_loop("duckduckgo", "extract")
       ELSE w_pc' = "extract" /\ UNCHANGED <<w_served, all_results, w_ret>>
    /\ UNCHANGED <<w_country, api_keys, run_vars, v_vars, c_vars, x_vars, g_vars, t_vars, s_vars>>

\* lines 650-664
ExtractFromResults ==
    /\ w_pc = "extract"
    /\ w_ret' = Return(
          [emails |-> UNION {ContactsIn(result_text(all_results[k])).emails :
                                k \in 1..Len(all_results)},
           phones |-> UNION {ContactsIn(result_text(all_results[k])).phones :
                                k \in 1..Len(all_results)},
           results_found |-> Len(all_results),
           search_results |-> first_n(all_results, 10)])
    /\ w_pc' = "returned"
    /\ UNCHANGED <<w_country, api_keys, w_served, all_results,
                   run_vars, v_vars, c_vars, x_vars, g_vars, t_vars, s_vars>>

InitSearch == SearchInit /\ RunIdle /\ VIdle /\ CIdle /\ XIdle /\ GIdle /\ TIdle /\ SIdle
NextSearch == SearchTavily \/ SearchBing \/ SearchDuckDuckGo \/ ExtractFromResults
SpecSearch == InitSearch /\ [][NextSearch]_vars

---------------------------------------------------------------------------
(* Properties of search_web_sources, checked under SpecSearch              *)

\* the queries answered with a 200, and the others: an exception or another
\* status
answered(served) == ~served.answer.raises /\ served.answer.status_code = 200

\* the results of the queries answered so far
results_served ==
    UNION {Range(w_served[k].answer.results) : k \in {j \in 1..Len(w_served) : answered(w_served[j])}}

\* C23: a query whose provider raises or answers with a status that is not
\* 200 adds no result, search_web_sources raises nothing, and what it
\* returns are the contacts of the results of the queries that were
\* answered, those of the other queries and providers.
C23_FailedQueryYieldsNothing ==
    /\ w_pc # "raised"
    /\ w_pc \in {"extract", "returned"} => Range(all_results) = results_served
    /\ w_pc = "returned" =>
          /\ ~w_ret.exc
          /\ w_ret.value.emails =
                UNION {ContactsIn(result_text(result)).emails : result \in results_served}
          /\ w_ret.value.phones =
                UNION {ContactsIn(result_text(result)).phones : result \in results_served}
          /\ w_ret.value.results_found = Cardinality(results_served)

C23_Witness ==
    /\ w_pc = "returned"
    /\ Len(w_served) = 5
    /\ w_served[1].answer.raises
    /\ w_served[2].answer.status_code = 500
    /\ answered(w_served[3])
    /\ w_served[4].provider = "bing" /\ answered(w_served[4])
    /\ w_served[5].answer.raises
    /\ w_ret.value.emails = {"j.smith@acme.co", "sales@acme.com"}
    /\ w_ret.value.phones = {}

\* C30: when search_web_sources returns, every query it built was sent to
\* a provider, the impressum/kontakt query of Germany and Deutschland
\* among them.
C30_EveryQuerySent ==
    w_pc = "returned" =>
        Range(search_queries(search_company, search_website, w_country))
            \subseteq {w_served[k].query : k \in 1..Len(w_served)}

====
